---------------------------- MODULE Spec2Model ----------------------------
(***************************************************************************)
(* State-machine model of the host side of the nbounce path tracer:        *)
(* the progressive-sampling driver (src/src/pathtracer.rs), the camera     *)
(* controller (src/src/common/camera.rs), the surface context              *)
(* (src/src/common/wgpu_context.rs) and the frame loop (src/src/app.rs,    *)
(* src/src/common/app_handler.rs).                                         *)
(*                                                                         *)
(* The specifications share the operators that model the methods:         *)
(*   SpecPT      drives the Pathtracer object through its public methods;  *)
(*   SpecCam     drives the CameraController through its public methods;   *)
(*   SpecApp     is the event loop of AppHandler<MainApp>;                 *)
(*   SpecRefine  is that loop left alone with a recoverable surface;       *)
(*   SpecMetrics drives PerformanceMetrics (src/src/common/performance_    *)
(*               metrics.rs);                                              *)
(*   SpecBVH     is a run of BVHTree::build_bvh (src/src/bvh.rs),          *)
(*               SpecBVHFair the same run that is not left unfinished;     *)
(*   SpecScene   is Scene::parse_gltf followed by SceneBuffers::from_scene *)
(*               (src/src/scene.rs).                                       *)
(***************************************************************************)
EXTENDS Integers, Sequences, FiniteSets, TLC

VARIABLES
    pt,          \* Pathtracer: globals, resolution_factor, max_sample_count, output, global_group
    wgpu,        \* WGPUContext: the surface configuration
    cam,         \* CameraController: pose, aspect_ratio, is_dirty, data
    gpu_camera,  \* contents of the camera uniform buffer on the device
    app,         \* the remaining fields of MainApp
    window,      \* the winit window: inner size, pending Resized event
    loop,        \* the event loop: position inside the redraw handler, exit, redraw request
    frame,       \* history: what the last step did
    orbited,     \* history: an orbit call not yet followed by a recorded dispatch
    inputs,      \* history: number of user inputs handled so far
    api,         \* history of SpecPT: the calls made on the Pathtracer
    cam_api,     \* history of SpecCam: the calls made on the CameraController
    metrics,     \* a PerformanceMetrics<BUFFER_SIZE>
    perf_api,    \* history of SpecMetrics: the clock and the durations recorded
    bvh,         \* a run of BVHTree::build_bvh: input mesh, triangle cache, nodes, stack
    ingest       \* a Scene and the run of SceneBuffers::from_scene over it

vars == <<pt, wgpu, cam, gpu_camera, app, window, loop, frame, orbited, inputs, api, cam_api,
          metrics, perf_api, bvh, ingest>>

-----------------------------------------------------------------------------
(* Program constants *)

\* Pathtracer::COMPUTE_SIZE
COMPUTE_SIZE == 8

\* Pathtracer::LDS_PER_BOUNCE
LDS_PER_BOUNCE == 2

\* max_sample_count as set by Pathtracer::new
DefaultMaxSampleCount == 1024

\* Globals::default().bounces
DefaultBounces == 8

\* resolution_factor as set by Pathtracer::new, in tenths (0.3)
DefaultResolutionTenths == 3

(* Bounds of the model *)

\* SpecPT: dispatch calls explored beyond the max_sample_count-th one
MaxExtraDispatch == 2

\* SpecApp: a frame is explored only while it leaves sample below this
MaxAccum == 12

\* SpecApp, SpecCam: number of azimuth steps of the orbit
YawSteps == 2

\* SpecApp: user inputs (widget, mouse wheel, window size) explored in one run
MaxInputs == 2

\* SpecMetrics: the const parameter BUFFER_SIZE of PerformanceMetrics (420 in MainApp)
BufferSize == 3

\* SpecMetrics: next_frame calls explored in one run
MaxFrames == 6

\* SpecBVH: triangles of the meshes put together from TriangleShapes
MaxTriangles == 3

(* Inputs *)

\* surface / window sizes <<width, height>>; a minimised window has size 0
ConfigSizes == { <<1000, 1000>>, <<800, 600>> }
WindowSizes == ConfigSizes \cup { <<0, 0>> }
InitialWindowSize == <<800, 600>>

\* values of the "Res" slider, in tenths (0.1 .. 1.0)
FactorValues == { 3, 5 }

\* values of the "Bounces" slider (0 .. 32)
BouncesValues == { 8, 32 }

\* values of the "Contribution Filtering" slider, as <<num, den>>
FilteringValues == { <<1, 100>>, <<1, 2>> }

-----------------------------------------------------------------------------
(* Numbers.  An f32 that the code only ever produces as a quotient of two  *)
(* small integers is the pair <<num, den>> of that quotient.               *)

Min(a, b) == IF a < b THEN a ELSE b
Max(a, b) == IF a > b THEN a ELSE b

\* 1.0 / n as f32, n >= 1 (n as f32 is exact below 2^24)
Recip(n) == <<1, n>>

\* 1.0 / q for a quotient q
Inverse(q) == <<q[2], q[1]>>

Zero == <<0, 1>>
One == <<1, 1>>

-----------------------------------------------------------------------------
(* Texture handles.  A new texture gets an id no live handle holds.        *)

FreshId(live) == CHOOSE i \in 0..Cardinality(live) :
                    /\ i \notin live
                    /\ \A j \in 0..Cardinality(live) : j \notin live => i <= j

\* Texture::create_depth
create_depth(config, live) ==
    [id |-> FreshId(live), width |-> config.width, height |-> config.height]

-----------------------------------------------------------------------------
(* Pathtracer *)

\* the mutant: no rounding down to a multiple of the workgroup size
create_output_texture_unrounded(config, resolution_tenths, live) ==
    [id     |-> FreshId(live),
     width  |-> (config.width * resolution_tenths) \div 10,
     height |-> (config.height * resolution_tenths) \div 10]

\* Pathtracer::create_output_texture: as_vec2() * factor, as_uvec2() truncates,
\* then integer division and multiplication by COMPUTE_SIZE
create_output_texture(config, resolution_tenths, live) ==
    [id     |-> FreshId(live),
     width  |-> (((config.width * resolution_tenths) \div 10) \div COMPUTE_SIZE) * COMPUTE_SIZE,
     height |-> (((config.height * resolution_tenths) \div 10) \div COMPUTE_SIZE) * COMPUTE_SIZE]

\* Pathtracer::create_global_group: binding 0 is the view of the output texture
create_global_group(output) == [texture |-> output.id]

\* the textures a Pathtracer keeps alive
LiveOutputs(p) == { p.output.id, p.global_group.texture }

\* Pathtracer::new with Globals::default()
Pathtracer_new(config) ==
    LET output == create_output_texture(config, DefaultResolutionTenths, {}) IN
    [sample            |-> 0,
     weight            |-> Zero,
     bounces           |-> DefaultBounces,
     throughput        |-> <<1, 100>>,
     resolution_factor |-> DefaultResolutionTenths,
     max_sample_count  |-> DefaultMaxSampleCount,
     lds_len           |-> DefaultMaxSampleCount * (DefaultBounces * LDS_PER_BOUNCE + 1),
     output            |-> output,
     global_group      |-> create_global_group(output)]

\* the mutant: the stale weight is cleared, the counter is not
Pathtracer_invalidate_keeps_sample(p) == [p EXCEPT !.weight = Zero]

\* Pathtracer::invalidate
Pathtracer_invalidate(p) == [p EXCEPT !.sample = 0]

\* the mutant: the bind group is not rebuilt
Pathtracer_update_stale_group(p, config, live) ==
    LET output == create_output_texture(config, p.resolution_factor, live \cup LiveOutputs(p)) IN
    Pathtracer_invalidate([p EXCEPT !.output = output])

\* Pathtracer::update
Pathtracer_update(p, config, live) ==
    LET output == create_output_texture(config, p.resolution_factor, live \cup LiveOutputs(p)) IN
    Pathtracer_invalidate(
        [p EXCEPT !.output = output, !.global_group = create_global_group(output)])

\* Pathtracer::resize, called by MainApp::resize and by the "Res" slider
Pathtracer_resize(p, config, live) ==
    [p EXCEPT !.output = create_output_texture(config, p.resolution_factor,
                                               live \cup LiveOutputs(p))]

\* the push constants written by dispatch
Globals(p) == [sample |-> p.sample, weight |-> p.weight,
               bounces |-> p.bounces, throughput |-> p.throughput]

\* the compute pass dispatch records
ComputePass(p) ==
    [pass        |-> "compute",
     bind_group  |-> p.global_group,
     push        |-> Globals(p),
     n_workgroups |-> <<p.output.width \div COMPUTE_SIZE, p.output.height \div COMPUTE_SIZE, 1>>]

\* the mutant: the budget test is > instead of >=
Pathtracer_dispatch_off_by_one(p, encoder) ==
    IF p.sample > p.max_sample_count
    THEN [pt |-> p, encoder |-> encoder]
    ELSE LET q == [p EXCEPT !.sample = p.sample + 1, !.weight = Recip(p.sample + 1)] IN
         [pt |-> q, encoder |-> Append(encoder, ComputePass(q))]

\* the mutant: the weight is computed before the increment
Pathtracer_dispatch_stale_weight(p, encoder) ==
    IF p.sample >= p.max_sample_count
    THEN [pt |-> p, encoder |-> encoder]
    ELSE LET q == [p EXCEPT !.sample = p.sample + 1,
                            !.weight = IF p.sample = 0 THEN p.weight ELSE Recip(p.sample)] IN
         [pt |-> q, encoder |-> Append(encoder, ComputePass(q))]

\* Pathtracer::dispatch: the Pathtracer and the encoder after the call
Pathtracer_dispatch(p, encoder) ==
    IF p.sample >= p.max_sample_count
    THEN [pt |-> p, encoder |-> encoder]
    ELSE LET q == [p EXCEPT !.sample = p.sample + 1, !.weight = Recip(p.sample + 1)] IN
         [pt |-> q, encoder |-> Append(encoder, ComputePass(q))]

-----------------------------------------------------------------------------
(* WGPUContext *)

\* WGPUContext::new: window.inner_size().max(PhysicalSize::new(1, 1))
WGPUContext_new(size) ==
    [config |-> [width |-> Max(size[1], 1), height |-> Max(size[2], 1)]]

\* WGPUContext::resize: the context after the call, and whether surface.configure ran
WGPUContext_resize(w, new_size) ==
    IF new_size[1] > 0 /\ new_size[2] > 0
    THEN [wgpu |-> [w EXCEPT !.config = [width |-> new_size[1], height |-> new_size[2]]],
          configured |-> TRUE]
    ELSE [wgpu |-> w, configured |-> FALSE]

-----------------------------------------------------------------------------
(* CameraController.  The pose (world_position relative to target) is kept *)
(* in orbit coordinates: azimuth and altitude in steps, distance in tenths.*)

\* CameraData::default(): zero matrices
DefaultCameraData == [world_to_clip |-> <<>>, clip_to_world |-> <<>>]

\* CameraController::new: world_position (5,0,0), target 0, min_dist 0.1, aspect 1.0
CameraController_new ==
    [yaw          |-> 0,
     pitch        |-> 0,
     distance     |-> 50,
     target       |-> 0,
     min_dist     |-> 1,
     aspect_ratio |-> <<1, 1>>,
     is_dirty     |-> TRUE,
     data         |-> DefaultCameraData]

\* CameraController::invalidate
CameraController_invalidate(c) == [c EXCEPT !.is_dirty = TRUE]

Clamp(x, lo, hi) == Max(lo, Min(x, hi))

\* altitude steps between the poles (the poles themselves are kept ALTITUDE_DELTA away)
MinPitch == -1
MaxPitch == 1

\* CameraController::orbit: yaw by -delta.x, pitch by delta.y clamped short of the poles
CameraController_orbit(c, delta) ==
    LET clamped_delta_y == Clamp(delta[2], MinPitch - c.pitch, MaxPitch - c.pitch) IN
    CameraController_invalidate(
        [c EXCEPT !.yaw = (c.yaw - delta[1]) % YawSteps,
                  !.pitch = c.pitch + clamped_delta_y])

\* CameraController::zoom
CameraController_zoom(c, delta) ==
    CameraController_invalidate([c EXCEPT !.distance = Max(c.distance - delta, c.min_dist)])

\* CameraController::move_in_eye_space: position and target move together
CameraController_move_in_eye_space(c, delta) ==
    CameraController_invalidate([c EXCEPT !.target = c.target + delta])

\* CameraController::resize
CameraController_resize(c, aspect_ratio) ==
    CameraController_invalidate([c EXCEPT !.aspect_ratio = aspect_ratio])

\* CameraController::calc_camera_data: the matrices are a function of pose and projection
calc_camera_data(c) ==
    [world_to_clip |-> <<c.yaw, c.pitch, c.distance, c.target, c.aspect_ratio>>,
     clip_to_world |-> <<c.aspect_ratio, c.target, c.distance, c.pitch, c.yaw>>]

\* the mutant: the dirty flag is not cleared
CameraController_update_keeps_dirty(c, buffer) ==
    IF c.is_dirty
    THEN LET data == calc_camera_data(c) IN
         [cam |-> [c EXCEPT !.data = data], buffer |-> data, ret |-> TRUE, writes |-> 1]
    ELSE [cam |-> c, buffer |-> buffer, ret |-> FALSE, writes |-> 0]

\* CameraController::update: the camera and the uniform buffer after the call,
\* the value returned, the number of queue.write_buffer calls
CameraController_update(c, buffer) ==
    IF c.is_dirty
    THEN LET data == calc_camera_data(c) IN
         [cam |-> [c EXCEPT !.data = data, !.is_dirty = FALSE],
          buffer |-> data, ret |-> TRUE, writes |-> 1]
    ELSE [cam |-> c, buffer |-> buffer, ret |-> FALSE, writes |-> 0]

\* CameraController::window_event
CameraController_window_event(c, event) ==
    CASE event.kind = "PinchGesture" -> CameraController_zoom(c, event.delta * 10)
      [] event.kind = "Resized"      -> CameraController_resize(c, event.size)
      [] OTHER                       -> c

\* CameraController::device_event: the wheel delta arrives scaled by 0.01 as orbit steps
CameraController_device_event(c, event) ==
    CASE event.kind = "MouseWheel" -> CameraController_orbit(c, event.delta)
      [] OTHER                     -> c

-----------------------------------------------------------------------------
(* PerformanceMetrics<BUFFER_SIZE>.  Instants and Durations are integers   *)
(* (nanoseconds); the ring buffer is indexed from 0 as in the code.        *)

\* Option<Instant>
None == <<>>
Some(t) == <<t>>

\* PerformanceMetrics::default
PerformanceMetrics_default ==
    [last_frame        |-> None,
     curr_frame_time   |-> 0,
     time_since_start  |-> 0,
     frame_time_buffer |-> [i \in 0..(BufferSize - 1) |-> 0],
     idx               |-> 0,
     n_frames          |-> 0,
     summed_frame_time |-> 0]

\* the mutant: a full buffer evicts nothing from the rolling sum
PerformanceMetrics_next_frame_no_eviction(m, now) ==
    IF m.last_frame = None
    THEN [m EXCEPT !.last_frame = Some(now)]
    ELSE LET curr == now - m.last_frame[1] IN
         [m EXCEPT !.curr_frame_time = curr,
                   !.last_frame = Some(now),
                   !.time_since_start = @ + curr,
                   !.summed_frame_time = @ + curr,
                   !.n_frames = IF @ < BufferSize THEN @ + 1 ELSE @,
                   !.frame_time_buffer[m.idx] = curr,
                   !.idx = (@ + 1) % BufferSize]

\* the mutant: the first call after a pause records an empty frame
PerformanceMetrics_next_frame_records_first(m, now) ==
    LET curr == IF m.last_frame = None THEN 0 ELSE now - m.last_frame[1]
        full == m.n_frames >= BufferSize
    IN  [m EXCEPT !.curr_frame_time = curr,
                  !.last_frame = Some(now),
                  !.time_since_start = @ + curr,
                  !.summed_frame_time =
                      IF full THEN @ + curr - m.frame_time_buffer[m.idx] ELSE @ + curr,
                  !.n_frames = IF full THEN @ ELSE @ + 1,
                  !.frame_time_buffer[m.idx] = curr,
                  !.idx = (@ + 1) % BufferSize]

\* PerformanceMetrics::next_frame, with Instant::now() = now
PerformanceMetrics_next_frame(m, now) ==
    IF m.last_frame = None
    THEN [m EXCEPT !.last_frame = Some(now)]
    ELSE LET curr == now - m.last_frame[1]
             full == m.n_frames >= BufferSize
         IN  [m EXCEPT !.curr_frame_time = curr,
                       !.last_frame = Some(now),
                       !.time_since_start = @ + curr,
                       !.summed_frame_time =
                           IF full THEN @ + curr - m.frame_time_buffer[m.idx] ELSE @ + curr,
                       !.n_frames = IF full THEN @ ELSE @ + 1,
                       !.frame_time_buffer[m.idx] = curr,
                       !.idx = (@ + 1) % BufferSize]

\* PerformanceMetrics::pause
PerformanceMetrics_pause(m) == [m EXCEPT !.last_frame = None]

\* PerformanceMetrics::avg_frame_time: checked_div(n_frames).unwrap_or_default()
PerformanceMetrics_avg_frame_time(m) ==
    IF m.n_frames = 0 THEN 0 ELSE m.summed_frame_time \div m.n_frames

InitPerfApi == [now |-> 0, recorded |-> <<>>, calls |-> 0, last |-> "new",
                before |-> PerformanceMetrics_default]

-----------------------------------------------------------------------------
(* BVHTree.  Vec3 is a triple of integers; a centre is kept times 3 (the   *)
(* sum of the three corners) and a split position times 48.  Costs, bin    *)
(* indices and split positions are rounded to the 24 significant bits of   *)
(* an f32 as the code's arithmetic rounds them.  Indices count from 0 as   *)
(* in the code.                                                            *)

Axes == 1..3

VecMin(a, b) == [k \in Axes |-> Min(a[k], b[k])]
VecMax(a, b) == [k \in Axes |-> Max(a[k], b[k])]

\* BVHTree::MAX_DEPTH
MAX_DEPTH == 32

\* BVHTree::N_BINS
N_BINS == 16

RECURSIVE F32Ulp(_)
\* the distance between neighbouring f32 values at the magnitude n >= 0
F32Ulp(n) == IF n < 16777216 THEN 1 ELSE 2 * F32Ulp(n \div 2)

\* the f32 nearest to n, ties to the even significand; the same for n counted
\* in units of a power of two
F32Round(n) ==
    LET a == IF n < 0 THEN 0 - n ELSE n
        ulp == F32Ulp(a)
        low == (a \div ulp) * ulp
        up == 2 * (a - low) > ulp \/ (2 * (a - low) = ulp /\ (a \div ulp) % 2 = 1)
        r == IF up THEN low + ulp ELSE low
    IN  IF n < 0 THEN 0 - r ELSE r

\* a cost is a finite number or f32::INFINITY
Finite(v) == [inf |-> FALSE, v |-> v]
Infinite == [inf |-> TRUE, v |-> 0]
CostAdd(a, b) == IF a.inf \/ b.inf THEN Infinite ELSE Finite(F32Round(a.v + b.v))
CostLess(a, b) == ~a.inf /\ (b.inf \/ a.v < b.v)

\* the surface-area term shared by BVHNode::cost and Bin::cost
HalfArea(min, max) ==
    LET extent == [k \in Axes |-> F32Round(max[k] - min[k])] IN
    F32Round(F32Round(F32Round(extent[1] * extent[2]) + F32Round(extent[1] * extent[3]))
             + F32Round(extent[2] * extent[3]))

\* BVHNode::cost (the extent of a node is always finite)
BVHNode_cost(node) == Finite(F32Round(node.count * HalfArea(node.min, node.max)))

\* BVHNode::is_leaf
BVHNode_is_leaf(node) == node.count > 0

\* the mutant: the node keeps its count
BVHNode_make_inner_keeps_count(node, left_child) == [node EXCEPT !.index = left_child]

\* BVHNode::make_inner
BVHNode_make_inner(node, left_child) == [node EXCEPT !.count = 0, !.index = left_child]

\* Bin::default: min = +INFINITY, max = -INFINITY while count = 0
Bin_default == [min |-> <<0, 0, 0>>, max |-> <<0, 0, 0>>, count |-> 0]

\* Bin::include
Bin_include(bin, triangle) ==
    IF bin.count = 0
    THEN [min |-> triangle.min, max |-> triangle.max, count |-> 1]
    ELSE [min |-> VecMin(bin.min, triangle.min), max |-> VecMax(bin.max, triangle.max),
          count |-> bin.count + 1]

\* Bin::include_bin
Bin_include_bin(bin, other) ==
    CASE other.count = 0 -> bin
      [] bin.count = 0   -> other
      [] OTHER           -> [min |-> VecMin(bin.min, other.min),
                             max |-> VecMax(bin.max, other.max),
                             count |-> bin.count + other.count]

\* Bin::cost: the extent of an empty bin is not finite
Bin_cost(bin) ==
    IF bin.count = 0 THEN Infinite
    ELSE Finite(F32Round(bin.count * HalfArea(bin.min, bin.max)))

\* the triangle cache of build_bvh: one Triangle per chunk of three indices
TriangleCache(mesh) ==
    [t \in 1..(Len(mesh.indices) \div 3) |->
        LET indices == SubSeq(mesh.indices, 3 * t - 2, 3 * t)
            v0 == mesh.vertices[indices[1] + 1]
            v1 == mesh.vertices[indices[2] + 1]
            v2 == mesh.vertices[indices[3] + 1]
        IN  [center3 |-> [k \in Axes |-> v0[k] + v1[k] + v2[k]],
             min     |-> VecMin(VecMin(v0, v1), v2),
             max     |-> VecMax(VecMax(v0, v1), v2),
             indices |-> indices]]

RECURSIVE LeafBounds(_, _, _, _)
\* the loop of build_leaf over i .. last, from the bounds acc: one iteration,
\* or the iterations of the first half followed by those of the second half
LeafBounds(triangles, i, last, acc) ==
    IF i > last THEN acc
    ELSE IF i = last
         THEN [min |-> VecMin(acc.min, triangles[i + 1].min),
               max |-> VecMax(acc.max, triangles[i + 1].max)]
         ELSE CHOOSE bounds \in
                 { LeafBounds(triangles, ((i + last) \div 2) + 1, last, first) :
                     first \in { LeafBounds(triangles, i, (i + last) \div 2, acc) } } : TRUE

\* the mutant: only the first triangle of the range is bounded
BVHTree_build_leaf_first_only(triangles, index, count) ==
    [min |-> triangles[index + 1].min, index |-> index,
     max |-> triangles[index + 1].max, count |-> count]

\* BVHTree::build_leaf
BVHTree_build_leaf(triangles, index, count) ==
    LET b == LeafBounds(triangles, index + 1, index + count - 1,
                        [min |-> triangles[index + 1].min, max |-> triangles[index + 1].max])
    IN  [min |-> b.min, index |-> index, max |-> b.max, count |-> count]

\* the mutant: the element is copied into the left slot instead of exchanged
swap_overwrites(triangles, a, b) == [triangles EXCEPT ![b + 1] = triangles[a + 1]]

\* slice::swap
swap(triangles, a, b) ==
    [triangles EXCEPT ![a + 1] = triangles[b + 1], ![b + 1] = triangles[a + 1]]

RECURSIVE Partition(_, _, _, _, _, _)
\* the mutant: a centre equal to mid goes to the left
Partition_includes_equal(triangles, parent, split, i, last, left_count) ==
    IF i > last
    THEN [triangles |-> triangles, left_count |-> left_count]
    ELSE IF i = last
         THEN IF 16 * triangles[i + 1].center3[split.axis] <= split.mid48
              THEN [triangles  |-> swap(triangles, i, parent.index + left_count),
                    left_count |-> left_count + 1]
              ELSE [triangles |-> triangles, left_count |-> left_count]
         ELSE CHOOSE r \in
                 { Partition(first.triangles, parent, split, ((i + last) \div 2) + 1, last,
                             first.left_count) :
                     first \in { Partition(triangles, parent, split, i, (i + last) \div 2,
                                           left_count) } } : TRUE

\* the loop of split over i .. last: the triangles and left_count after one
\* iteration, or after the iterations of the first half followed by those of
\* the second half
Partition(triangles, parent, split, i, last, left_count) ==
    IF i > last
    THEN [triangles |-> triangles, left_count |-> left_count]
    ELSE IF i = last
         THEN IF 16 * triangles[i + 1].center3[split.axis] < split.mid48
              THEN [triangles  |-> swap(triangles, i, parent.index + left_count),
                    left_count |-> left_count + 1]
              ELSE [triangles |-> triangles, left_count |-> left_count]
         ELSE CHOOSE r \in
                 { Partition(first.triangles, parent, split, ((i + last) \div 2) + 1, last,
                             first.left_count) :
                     first \in { Partition(triangles, parent, split, i, (i + last) \div 2,
                                           left_count) } } : TRUE

\* the mutant: the right child starts one triangle early
BVHTree_split_overlapping(triangles, parent, split) ==
    LET r == Partition(triangles, parent, split, parent.index,
                       parent.index + parent.count - 1, 0) IN
    IF r.left_count = 0 \/ r.left_count = parent.count
    THEN [triangles |-> r.triangles, result |-> <<>>]
    ELSE [triangles |-> r.triangles,
          result |-> << BVHTree_build_leaf(r.triangles, parent.index, r.left_count),
                        BVHTree_build_leaf(r.triangles, parent.index + r.left_count - 1,
                                           parent.count - r.left_count + 1) >>]

\* the mutant: the right child is built over the whole parent again
BVHTree_split_keeps_parent(triangles, parent, split) ==
    LET r == Partition(triangles, parent, split, parent.index,
                       parent.index + parent.count - 1, 0) IN
    IF r.left_count = 0 \/ r.left_count = parent.count
    THEN [triangles |-> r.triangles, result |-> <<>>]
    ELSE [triangles |-> r.triangles,
          result |-> << BVHTree_build_leaf(r.triangles, parent.index, r.left_count),
                        BVHTree_build_leaf(r.triangles, parent.index, parent.count) >>]

\* BVHTree::split: the reordered triangles and None (<<>>) or Some((left, right))
BVHTree_split(triangles, parent, split) ==
    LET r == Partition(triangles, parent, split, parent.index,
                       parent.index + parent.count - 1, 0) IN
    IF r.left_count = 0 \/ r.left_count = parent.count
    THEN [triangles |-> r.triangles, result |-> <<>>]
    ELSE [triangles |-> r.triangles,
          result |-> << BVHTree_build_leaf(r.triangles, parent.index, r.left_count),
                        BVHTree_build_leaf(r.triangles, parent.index + r.left_count,
                                           parent.count - r.left_count) >>]

RECURSIVE IncludeAll(_, _, _, _, _)
\* the loop over the positions j in i .. last that calls bin.include() for
\* those in S: one iteration, or the first half followed by the second half
IncludeAll(triangles, S, i, last, bin) ==
    IF i > last THEN bin
    ELSE IF i = last
         THEN IF i \in S THEN Bin_include(bin, triangles[i + 1]) ELSE bin
         ELSE CHOOSE r \in
                 { IncludeAll(triangles, S, ((i + last) \div 2) + 1, last, first) :
                     first \in { IncludeAll(triangles, S, i, (i + last) \div 2, bin) } } : TRUE

\* a default Bin after include() of the triangles at the positions in S
BinOver(triangles, S) == IncludeAll(triangles, S, 0, Len(triangles) - 1, Bin_default)

\* the positions a node covers
NodeRange(node) == node.index .. (node.index + node.count - 1)

RECURSIVE BestScan(_, _, _, _)
\* the mutant: a candidate is also taken when its cost equals the best so far
BestScan_on_equal(costs, k, best_cost, selected) ==
    IF k > Len(costs) THEN selected
    ELSE IF ~CostLess(best_cost, costs[k])
         THEN BestScan(costs, k + 1, costs[k], Append(selected, k))
         ELSE BestScan(costs, k + 1, best_cost, selected)

\* the scan "if cost < best_cost { best_cost = cost; result = ... }" over the
\* candidates k .. Len(costs): the candidates that were assigned to result, in order
BestScan(costs, k, best_cost, selected) ==
    IF k > Len(costs) THEN selected
    ELSE IF CostLess(costs[k], best_cost)
         THEN BestScan(costs, k + 1, costs[k], Append(selected, k))
         ELSE BestScan(costs, k + 1, best_cost, selected)

\* the candidate kept in result at the end of the scan, `result` if none was taken
FirstBest(costs, k, best_cost, result) ==
    LET selected == BestScan(costs, k, best_cost, <<>>) IN
    IF selected = <<>> THEN result ELSE selected[Len(selected)]

\* the costs of a sequence of candidates
CostsOf(candidates) == [c \in DOMAIN candidates |-> candidates[c].cost]

\* the Split of a candidate
SplitOf(candidate) == [axis |-> candidate.axis, mid48 |-> candidate.mid48]

\* the candidates of find_best_split in the order axis, then i: the split at the
\* centre of triangle i, and left.cost() + right.cost()
BruteCandidates(triangles, parent) ==
    LET n == parent.count
        axis_of(c) == ((c - 1) \div n) + 1
        mid48_of(c) == 16 * triangles[parent.index + ((c - 1) % n) + 1].center3[axis_of(c)]
        left(c) == BinOver(triangles, {j \in NodeRange(parent) :
                              16 * triangles[j + 1].center3[axis_of(c)] < mid48_of(c)})
        right(c) == BinOver(triangles, {j \in NodeRange(parent) :
                              ~(16 * triangles[j + 1].center3[axis_of(c)] < mid48_of(c))})
    IN  [c \in 1..(3 * n) |->
            [axis |-> axis_of(c), i |-> (c - 1) % n, mid48 |-> mid48_of(c),
             cost |-> CostAdd(Bin_cost(left(c)), Bin_cost(right(c)))]]

\* BVHTree::find_best_split
BVHTree_find_best_split(triangles, parent) ==
    LET candidates == BruteCandidates(triangles, parent)
        best == FirstBest(CostsOf(candidates), 1, BVHNode_cost(parent), 0)
    IN  IF best = 0 THEN <<>> ELSE << SplitOf(candidates[best]) >>

\* the number m or m - 1 that the f32 quotient num / den rounds into, for
\* m - 1 <= num / den < m: the quotient is rounded up to m when it lies within
\* half the f32 spacing below m
F32QuotientFloor(num, den, m) ==
    LET spacing == IF m <= 1 THEN 33554432
                   ELSE IF m <= 2 THEN 16777216
                   ELSE IF m <= 4 THEN 8388608
                   ELSE IF m <= 8 THEN 4194304
                   ELSE 2097152
    IN  IF m * den - num <= den \div spacing THEN m ELSE m - 1

\* floor((center - parent.min) / step) as u32, at most N_BINS - 1; 0 / 0 casts to 0
BinIndex(triangle, parent, axis) ==
    LET extent == F32Round(parent.max[axis] - parent.min[axis])
        num == N_BINS * (triangle.center3[axis] - 3 * parent.min[axis])
    IN  IF extent = 0 THEN 0
        ELSE Min(F32QuotientFloor(num, 3 * extent, (num \div (3 * extent)) + 1), N_BINS - 1)

RECURSIVE MergeBins(_, _, _)
\* a default Bin after include_bin() of bins[from], .., bins[to]
MergeBins(bins, from, to) ==
    IF from > to THEN Bin_default
    ELSE Bin_include_bin(MergeBins(bins, from, to - 1), bins[to])

\* the N_BINS bins per axis that approximate_best_split fills
BinnedBins(triangles, parent) ==
    [axis \in Axes |-> [b \in 0..(N_BINS - 1) |->
                    BinOver(triangles, {j \in NodeRange(parent) :
                                BinIndex(triangles[j + 1], parent, axis) = b})]]

\* the candidates over filled bins in the order axis, then i in 0 .. N_BINS - 2:
\* mid = parent.min[axis] + step[axis] * (i + 1), and left.cost() + right.cost()
\* of the bins 0 ..= i and i + 1 .. N_BINS - 1
BinnedCandidatesOf(bins, parent) ==
    LET per_axis == N_BINS - 1
        axis_of(c) == ((c - 1) \div per_axis) + 1
        i_of(c) == (c - 1) % per_axis
        extent(axis) == F32Round(parent.max[axis] - parent.min[axis])
    IN  [c \in 1..(3 * per_axis) |->
            [axis  |-> axis_of(c), i |-> i_of(c),
             mid48 |-> 3 * F32Round(N_BINS * parent.min[axis_of(c)]
                                      + F32Round(extent(axis_of(c)) * (i_of(c) + 1))),
             cost  |-> CostAdd(Bin_cost(MergeBins(bins[axis_of(c)], 0, i_of(c))),
                               Bin_cost(MergeBins(bins[axis_of(c)], i_of(c) + 1, N_BINS - 1)))]]

\* the candidates of approximate_best_split (the bins are filled once)
BinnedCandidates(triangles, parent) ==
    CHOOSE candidates \in { BinnedCandidatesOf(bins, parent) :
                               bins \in { BinnedBins(triangles, parent) } } : TRUE

\* BVHTree::approximate_best_split
BVHTree_approximate_best_split(triangles, parent) ==
    LET candidates == BinnedCandidates(triangles, parent)
        best == FirstBest(CostsOf(candidates), 1, BVHNode_cost(parent), 0)
    IN  IF best = 0 THEN <<>> ELSE << SplitOf(candidates[best]) >>

\* the mutant: eleven triangles are binned
SplitBranch_bins_eleven(count) ==
    CASE count <= 1               -> "single"
      [] count = 2                -> "manual"
      [] count >= 3 /\ count <= 10 -> "brute"
      [] OTHER                    -> "binned"

\* the arms of the match in split_node: 0 | 1, 2, 3..=11, _
SplitBranch(count) ==
    CASE count <= 1               -> "single"
      [] count = 2                -> "manual"
      [] count >= 3 /\ count <= 11 -> "brute"
      [] OTHER                    -> "binned"

\* the mutant: two triangles are split also when the cost stays the same
BVHTree_split_node_on_equal_cost(triangles, parent) ==
    LET left == BVHTree_build_leaf(triangles, parent.index, 1)
        right == BVHTree_build_leaf(triangles, parent.index + 1, 1)
        unsplit == [triangles |-> triangles, result |-> <<>>]
    IN  CASE parent.count <= 1 -> unsplit
          [] parent.count = 2 ->
                IF ~CostLess(BVHNode_cost(parent), CostAdd(BVHNode_cost(left), BVHNode_cost(right)))
                THEN [triangles |-> triangles, result |-> <<left, right>>]
                ELSE unsplit
          [] OTHER ->
                LET split == BVHTree_find_best_split(triangles, parent) IN
                IF split = <<>> THEN unsplit ELSE BVHTree_split(triangles, parent, split[1])

\* BVHTree::split_node: the reordered triangles and None (<<>>) or Some((left, right))
BVHTree_split_node(triangles, parent) ==
    LET unsplit == [triangles |-> triangles, result |-> <<>>]
        branch == SplitBranch(parent.count)
    IN
    CASE branch = "single" -> unsplit
      [] branch = "manual" ->
            LET left == BVHTree_build_leaf(triangles, parent.index, 1)
                right == BVHTree_build_leaf(triangles, parent.index + 1, 1)
            IN  IF CostLess(CostAdd(BVHNode_cost(left), BVHNode_cost(right)), BVHNode_cost(parent))
                THEN [triangles |-> triangles, result |-> <<left, right>>]
                ELSE unsplit
      [] branch = "brute" ->
            LET found == BVHTree_find_best_split(triangles, parent) IN
            IF found = <<>> THEN unsplit
            ELSE CHOOSE r \in { BVHTree_split(triangles, parent, split) :
                                   split \in { found[1] } } : TRUE
      [] OTHER ->
            LET found == BVHTree_approximate_best_split(triangles, parent) IN
            IF found = <<>> THEN unsplit
            ELSE CHOOSE r \in { BVHTree_split(triangles, parent, split) :
                                   split \in { found[1] } } : TRUE

\* triangles.iter().flat_map(|t| t.indices).collect()
FlatIndices(triangles) ==
    [i \in 1..(3 * Len(triangles)) |-> triangles[((i - 1) \div 3) + 1].indices[((i - 1) % 3) + 1]]

\* the candidates split_node weighs for a node, by the arm of its match
SplitCandidates(triangles, parent) ==
    LET branch == SplitBranch(parent.count) IN
    CASE branch = "single" -> [branch |-> branch, candidates |-> <<>>]
      [] branch = "manual" ->
            LET left == BVHTree_build_leaf(triangles, parent.index, 1)
                right == BVHTree_build_leaf(triangles, parent.index + 1, 1)
            IN  [branch |-> branch,
                 candidates |-> << [axis |-> 0, i |-> 0, mid48 |-> 0,
                                    cost |-> CostAdd(BVHNode_cost(left), BVHNode_cost(right))] >>]
      [] branch = "brute" ->
            [branch |-> branch, candidates |-> BruteCandidates(triangles, parent)]
      [] OTHER ->
            [branch |-> branch, candidates |-> BinnedCandidates(triangles, parent)]

\* the mutant: the cap is one level late
DepthCapped_off_by_one(depth) == depth > MAX_DEPTH

\* "if depth >= Self::MAX_DEPTH { continue; }"
DepthCapped(depth) == depth >= MAX_DEPTH

\* no iteration of the loop has run
NoPop == [kind |-> "none", depth |-> 0, node_index |-> 0,
          node |-> [min |-> <<0, 0, 0>>, index |-> 0, max |-> <<0, 0, 0>>, count |-> 0],
          branch |-> "none", candidates |-> <<>>, selected |-> <<>>, result |-> <<>>,
          before |-> <<>>]

\* no build_bvh call has been made; `covered` remembers, per node, the range
\* it was built over as a leaf, `last` the latest iteration of the loop: the
\* node popped, the candidates weighed, those taken by the scan, what
\* split_node returned and the triangles before the call
InitBvh == [pc |-> "idle", mesh |-> <<>>, vertices |-> <<>>, cache |-> <<>>,
            triangles |-> <<>>, nodes |-> <<>>, covered |-> <<>>, stack |-> <<>>,
            indices |-> <<>>, last |-> NoPop]

\* Scene::default: no file parsed, from_scene not called
InitIngest == [pc |-> "empty", gltf |-> [meshes |-> <<>>, nodes |-> <<>>],
               vertices |-> <<>>, indices |-> <<>>, geometry_map |-> <<>>,
               primitives |-> <<>>, triangles |-> <<>>, blas |-> <<>>,
               stack |-> <<>>, root |-> 0, instances |-> <<>>]

-----------------------------------------------------------------------------
(* The state after construction (AppHandler::resumed, MainApp::new)        *)

NoUi == [kind |-> "none", n |-> 0, q |-> Zero, ok |-> TRUE]

NoFrame ==
    [event       |-> "none",
     ui          |-> NoUi,
     cam_updated |-> FALSE,
     acquire     |-> "none",
     encoder     |-> <<>>,
     submitted   |-> <<>>,
     presented   |-> FALSE,
     resized     |-> "none",
     configured  |-> FALSE,
     after_orbit |-> "none",
     calls       |-> <<>>]

InitWgpu == WGPUContext_new(InitialWindowSize)

InitPt == Pathtracer_new(InitWgpu.config)

InitApp ==
    [depth_texture      |-> create_depth(InitWgpu.config, {}),
     scene              |-> 0,
     envmap             |-> 0,
     fullscreen_texture |-> InitPt.output.id,
     scene_index        |-> 0,
     envmap_index       |-> 0,
     popup_open         |-> FALSE]

InitApi == [last |-> "new", reset_by |-> "new", ndispatch |-> 0, before |-> 0, encoder |-> <<>>]

InitCamApi == [last |-> "new", prev |-> "new", ret |-> "none", writes |-> 0, touched |-> TRUE]

Init ==
    /\ wgpu = InitWgpu
    /\ pt = InitPt
    /\ cam = CameraController_new
    /\ gpu_camera = DefaultCameraData
    /\ app = InitApp
    /\ window = [inner_size |-> InitialWindowSize, resized_pending |-> FALSE]
    /\ loop = [pc |-> "idle", redraw_requested |-> TRUE, exiting |-> FALSE]
    /\ frame = NoFrame
    /\ orbited = "no"
    /\ inputs = 0
    /\ api = InitApi
    /\ cam_api = InitCamApi
    /\ metrics = PerformanceMetrics_default
    /\ perf_api = InitPerfApi
    /\ bvh = InitBvh
    /\ ingest = InitIngest

-----------------------------------------------------------------------------
(* SpecPT: the Pathtracer driven through its public methods                *)

\* a call of Pathtracer::dispatch on a fresh encoder
PT_Dispatch ==
    /\ api.ndispatch < pt.max_sample_count + MaxExtraDispatch
    /\ LET r == Pathtracer_dispatch(pt, <<>>) IN
        /\ pt' = r.pt
        /\ api' = [api EXCEPT !.last = "dispatch",
                              !.ndispatch = api.ndispatch + 1,
                              !.encoder = r.encoder]
    /\ UNCHANGED <<wgpu, cam, gpu_camera, app, window, loop, frame, orbited, inputs, cam_api, metrics, perf_api, bvh, ingest>>

\* a call of Pathtracer::invalidate
PT_Invalidate ==
    /\ pt' = Pathtracer_invalidate(pt)
    /\ api' = [last |-> "invalidate", reset_by |-> "invalidate", ndispatch |-> 0,
               before |-> Min(api.ndispatch, 2), encoder |-> <<>>]
    /\ UNCHANGED <<wgpu, cam, gpu_camera, app, window, loop, frame, orbited, inputs, cam_api, metrics, perf_api, bvh, ingest>>

\* a call of Pathtracer::update, after the caller configured the surface
\* to `size` and set the public field resolution_factor to `factor`
PT_Update(size, factor) ==
    /\ wgpu' = WGPUContext_resize(wgpu, size).wgpu
    /\ pt' = Pathtracer_update([pt EXCEPT !.resolution_factor = factor], wgpu'.config, {})
    /\ api' = [last |-> "update", reset_by |-> "update", ndispatch |-> 0,
               before |-> Min(api.ndispatch, 2), encoder |-> <<>>]
    /\ UNCHANGED <<cam, gpu_camera, app, window, loop, frame, orbited, inputs, cam_api, metrics, perf_api, bvh, ingest>>

NextPT ==
    \/ PT_Dispatch
    \/ PT_Invalidate
    \/ \E size \in ConfigSizes, factor \in FactorValues : PT_Update(size, factor)

SpecPT == Init /\ [][NextPT]_vars

-----------------------------------------------------------------------------
(* Progressive accumulation laws, under SpecPT                             *)

\* C1 as stated: starting from sample = 0, after k consecutive dispatch calls
\* (k = api.ndispatch, no invalidate or update in between) sample = k and weight = 1/k
C1_SampleEqualsCalls ==
    /\ pt.sample = api.ndispatch
    /\ api.ndispatch >= 1 => pt.weight = Recip(api.ndispatch)

\* C1 amended: the law holds for 1 <= k <= max_sample_count; from the
\* max_sample_count-th call on, sample stays max_sample_count and weight 1/max_sample_count
C1_SampleEqualsCallsUpToBudget ==
    LET k == Min(api.ndispatch, pt.max_sample_count) IN
    /\ pt.sample = k
    /\ api.ndispatch >= 1 => pt.weight = Recip(k)

C1_Witness ==
    /\ api.ndispatch = 64
    /\ pt.sample = 64
    /\ pt.weight = <<1, 64>>

\* C2: the dispatch call that directly follows an invalidate call leaves
\* sample = 1 and weight = 1.0, whatever preceded the invalidate
C2_FirstDispatchAfterInvalidate ==
    [][(api.last = "invalidate" /\ api'.last = "dispatch")
          => (pt'.sample = 1 /\ pt'.weight = One)]_vars

C2_Witness ==
    /\ api.last = "dispatch"
    /\ api.reset_by = "invalidate"
    /\ api.ndispatch = 1
    /\ api.before = 2
    /\ pt.sample = 1
    /\ pt.weight = One

\* C3: a dispatch call records nothing and leaves sample and weight alone iff
\* sample >= max_sample_count at the call; otherwise it adds 1 to sample and
\* records exactly one compute pass
C3_NoOpIffBudgetSpent ==
    [][(api'.last = "dispatch" /\ api'.ndispatch = api.ndispatch + 1) =>
          IF pt.sample >= pt.max_sample_count
          THEN pt' = pt /\ Len(api'.encoder) = 0
          ELSE /\ pt'.sample = pt.sample + 1
               /\ Len(api'.encoder) = 1
               /\ api'.encoder[1].push.sample = pt'.sample]_vars

C3_Witness ==
    /\ api.last = "dispatch"
    /\ api.ndispatch = pt.max_sample_count + 1
    /\ pt.sample = pt.max_sample_count
    /\ Len(api.encoder) = 0

-----------------------------------------------------------------------------
(* SpecCam: the CameraController driven through its public methods         *)

\* mouse-wheel deltas in orbit steps, pinch / zoom deltas in tenths, pans, aspect ratios
OrbitDeltas == { <<1, 0>>, <<0, 1>>, <<0, -2>> }
ZoomDeltas == { 60, -49 }
MoveDeltas == { 1, -1 }
Pans == { 0, 1 }
AspectRatios == { <<800, 600>> }

CamCalled(op, ret, writes) ==
    cam_api' = [last |-> op, prev |-> cam_api.last, ret |-> ret, writes |-> writes,
                touched |-> (op # "update")]

CamOnly == UNCHANGED <<pt, wgpu, app, window, loop, frame, orbited, inputs, api, metrics, perf_api, bvh, ingest>>

Cam_Orbit(delta) ==
    /\ cam' = CameraController_orbit(cam, delta)
    /\ CamCalled("orbit", "none", 0)
    /\ UNCHANGED gpu_camera
    /\ CamOnly

Cam_Zoom(delta) ==
    /\ cam.distance - delta <= CameraController_new.distance
    /\ cam' = CameraController_zoom(cam, delta)
    /\ CamCalled("zoom", "none", 0)
    /\ UNCHANGED gpu_camera
    /\ CamOnly

Cam_Move(delta) ==
    /\ cam.target + delta \in Pans
    /\ cam' = CameraController_move_in_eye_space(cam, delta)
    /\ CamCalled("move_in_eye_space", "none", 0)
    /\ UNCHANGED gpu_camera
    /\ CamOnly

Cam_Resize(aspect_ratio) ==
    /\ cam' = CameraController_resize(cam, aspect_ratio)
    /\ CamCalled("resize", "none", 0)
    /\ UNCHANGED gpu_camera
    /\ CamOnly

Cam_Invalidate ==
    /\ cam' = CameraController_invalidate(cam)
    /\ CamCalled("invalidate", "none", 0)
    /\ UNCHANGED gpu_camera
    /\ CamOnly

Cam_Update ==
    /\ LET r == CameraController_update(cam, gpu_camera) IN
        /\ cam' = r.cam
        /\ gpu_camera' = r.buffer
        /\ CamCalled("update", IF r.ret THEN "true" ELSE "false", r.writes)
    /\ CamOnly

NextCam ==
    \/ \E delta \in OrbitDeltas : Cam_Orbit(delta)
    \/ \E delta \in ZoomDeltas : Cam_Zoom(delta)
    \/ \E delta \in MoveDeltas : Cam_Move(delta)
    \/ \E aspect_ratio \in AspectRatios : Cam_Resize(aspect_ratio)
    \/ Cam_Invalidate
    \/ Cam_Update

SpecCam == Init /\ [][NextCam]_vars

\* C6: the dirty flag is set exactly when the camera was constructed or operated on
\* (orbit, zoom, move_in_eye_space, resize, invalidate) since the previous update;
\* update returns true exactly when the flag is set, then writes the recomputed
\* uniform once and clears the flag, and otherwise writes nothing and changes
\* nothing; an update that directly follows an update returns false
C6_UpdateReturnsDirty ==
    /\ [](cam.is_dirty <=> cam_api.touched)
    /\ [][cam_api'.last = "update" =>
            IF cam.is_dirty
            THEN /\ cam_api'.ret = "true"
                 /\ cam_api'.writes = 1
                 /\ gpu_camera' = calc_camera_data(cam)
                 /\ cam'.data = calc_camera_data(cam)
                 /\ ~cam'.is_dirty
            ELSE /\ cam_api'.ret = "false"
                 /\ cam_api'.writes = 0
                 /\ gpu_camera' = gpu_camera
                 /\ cam' = cam]_vars
    /\ [][(cam_api.last = "update" /\ cam_api'.last = "update")
            => cam_api'.ret = "false"]_vars

C6_Witness ==
    /\ cam_api.last = "update"
    /\ cam_api.prev = "update"
    /\ cam_api.ret = "false"
    /\ cam_api.writes = 0
    /\ cam.yaw # CameraController_new.yaw
    /\ gpu_camera = calc_camera_data(cam)

-----------------------------------------------------------------------------
(* MainApp.  Its methods act on the bundle m of the objects it owns.       *)

\* scene and environment files found by search_files at startup
SceneFiles == { 0, 1 }
EnvmapFiles == { 0, 1 }

\* results of surface.get_current_texture()
AcquireResults == { "Ok", "Lost", "OutOfMemory", "Outdated", "Timeout" }

MainApp == [wgpu |-> wgpu, pt |-> pt, cam |-> cam, gpu_camera |-> gpu_camera, app |-> app]

\* BlitRenderer::set_texture with the Pathtracer's output texture
set_texture(m) == [m EXCEPT !.app.fullscreen_texture = m.pt.output.id]

\* the mutant: no early return for an unchanged size
MainApp_resize_always(m, new_size) ==
    LET r == WGPUContext_resize(m.wgpu, new_size)
        depth == create_depth(r.wgpu.config, {m.app.depth_texture.id})
        blit == {m.app.fullscreen_texture}
        p == Pathtracer_update(Pathtracer_resize(m.pt, r.wgpu.config, blit), r.wgpu.config, blit)
    IN  [m |-> set_texture([m EXCEPT !.wgpu = r.wgpu, !.app.depth_texture = depth, !.pt = p]),
         resized |-> "done", configured |-> r.configured]

\* MainApp::resize: the bundle after the call, whether it returned early,
\* whether surface.configure ran
MainApp_resize(m, new_size) ==
    IF new_size[1] = m.wgpu.config.width /\ new_size[2] = m.wgpu.config.height
    THEN [m |-> m, resized |-> "skipped", configured |-> FALSE]
    ELSE LET r == WGPUContext_resize(m.wgpu, new_size)
             depth == create_depth(r.wgpu.config, {m.app.depth_texture.id})
             blit == {m.app.fullscreen_texture}
             p == Pathtracer_update(Pathtracer_resize(m.pt, r.wgpu.config, blit),
                                    r.wgpu.config, blit)
         IN  [m |-> set_texture([m EXCEPT !.wgpu = r.wgpu, !.app.depth_texture = depth, !.pt = p]),
              resized |-> "done", configured |-> r.configured]

\* MainApp::update, "Res" slider
update_res(m, ui) ==
    IF ui.kind = "res"
    THEN LET blit == {m.app.fullscreen_texture}
             p0 == [m.pt EXCEPT !.resolution_factor = ui.n]
             p == Pathtracer_update(Pathtracer_resize(p0, m.wgpu.config, blit),
                                    m.wgpu.config, blit)
         IN  set_texture([m EXCEPT !.pt = p])
    ELSE m

\* MainApp::update, "Bounces" and "Contribution Filtering" sliders
update_globals(m, ui) ==
    LET p1 == IF ui.kind = "bounces" THEN [m.pt EXCEPT !.bounces = ui.n] ELSE m.pt
        p2 == IF ui.kind = "clamp" THEN [p1 EXCEPT !.throughput = Inverse(ui.q)] ELSE p1
        updated == ui.kind = "bounces" \/ ui.kind = "clamp"
    IN  [m EXCEPT !.pt = IF updated THEN Pathtracer_invalidate(p2) ELSE p2]

\* the mutant: a failed load discards the accumulated samples too
update_scene_invalidates_on_error(m, ui) ==
    IF ui.kind = "scene"
    THEN LET m1 == [m EXCEPT !.app.scene_index = ui.n, !.pt = Pathtracer_invalidate(m.pt)] IN
         IF ui.ok
         THEN [m1 EXCEPT !.app.scene = ui.n]
         ELSE [m1 EXCEPT !.app.popup_open = TRUE]
    ELSE m

\* MainApp::update, "Scene" combo
update_scene(m, ui) ==
    IF ui.kind = "scene"
    THEN LET m1 == [m EXCEPT !.app.scene_index = ui.n] IN
         IF ui.ok
         THEN [m1 EXCEPT !.app.scene = ui.n, !.pt = Pathtracer_invalidate(m1.pt)]
         ELSE [m1 EXCEPT !.app.popup_open = TRUE]
    ELSE m

\* MainApp::update, "Environment" combo
update_envmap(m, ui) ==
    IF ui.kind = "envmap"
    THEN LET m1 == [m EXCEPT !.app.envmap_index = ui.n] IN
         IF ui.ok
         THEN [m1 EXCEPT !.app.envmap = ui.n,
                         !.pt = Pathtracer_update(m1.pt, m1.wgpu.config,
                                                  {m1.app.fullscreen_texture})]
         ELSE [m1 EXCEPT !.app.popup_open = TRUE]
    ELSE m

\* MainApp::update, the "Close" button of the error popup
update_popup(m, ui) ==
    IF ui.kind = "close" /\ m.app.popup_open THEN [m EXCEPT !.app.popup_open = FALSE] ELSE m

\* the mutant: every update invalidates, whatever camera.update() returns
update_camera_always_invalidates(m) ==
    LET r == CameraController_update(m.cam, m.gpu_camera) IN
    [m |-> [m EXCEPT !.cam = r.cam, !.gpu_camera = r.buffer,
                     !.pt = Pathtracer_invalidate(m.pt)],
     cam_updated |-> r.ret]

\* MainApp::update, camera.update() and the invalidate it triggers
update_camera(m) ==
    LET r == CameraController_update(m.cam, m.gpu_camera) IN
    [m |-> [m EXCEPT !.cam = r.cam, !.gpu_camera = r.buffer,
                     !.pt = IF r.ret THEN Pathtracer_invalidate(m.pt) ELSE m.pt],
     cam_updated |-> r.ret]

\* the mutant: the return value of camera.update() is ignored
MainApp_update_ignores_camera(m, ui) ==
    LET m5 == update_popup(update_envmap(update_scene(update_globals(update_res(m, ui), ui), ui), ui), ui)
        r == CameraController_update(m5.cam, m5.gpu_camera)
    IN  [m |-> [m5 EXCEPT !.cam = r.cam, !.gpu_camera = r.buffer], cam_updated |-> r.ret]

\* the mutant: a moved slider or a reloaded scene does not invalidate
MainApp_update_keeps_samples(m, ui) ==
    LET p1 == IF ui.kind = "bounces" THEN [m.pt EXCEPT !.bounces = ui.n] ELSE m.pt
        p2 == IF ui.kind = "clamp" THEN [p1 EXCEPT !.throughput = Inverse(ui.q)] ELSE p1
        m2 == [update_res(m, ui) EXCEPT !.pt = IF ui.kind \in {"bounces", "clamp"} THEN p2 ELSE @]
    IN  update_camera(update_popup(update_envmap(update_scene(m2, ui), ui), ui))

\* MainApp::update: one frame of the GUI with the widget input `ui`, then the camera
MainApp_update(m, ui) ==
    update_camera(
        update_popup(update_envmap(update_scene(update_globals(update_res(m, ui), ui), ui), ui), ui))

\* the mutant: the overlay is drawn before the blit
RenderPass_overlay_first(m) ==
    [pass  |-> "render",
     color |-> "clear black",
     depth |-> m.app.depth_texture.id,
     draws |-> <<[draw |-> "imgui"],
                 [draw |-> "blit", texture |-> m.app.fullscreen_texture]>>]

\* the render pass of MainApp::render: blit, then the overlay
RenderPass(m) ==
    [pass  |-> "render",
     color |-> "clear black",
     depth |-> m.app.depth_texture.id,
     draws |-> <<[draw |-> "blit", texture |-> m.app.fullscreen_texture],
                 [draw |-> "imgui"]>>]

\* the mutant: the compute pass is dispatched before the surface texture is acquired
MainApp_render_dispatches_first(m, acquire) ==
    LET d == Pathtracer_dispatch(m.pt, <<>>)
        m1 == [m EXCEPT !.pt = d.pt]
        encoder == Append(d.encoder, RenderPass(m1))
    IN  IF acquire # "Ok"
        THEN [m |-> m1, result |-> acquire, encoder |-> <<>>, submitted |-> <<>>,
              presented |-> FALSE, calls |-> <<"dispatch", "get_current_texture">>]
        ELSE [m |-> m1, result |-> "Ok", encoder |-> encoder,
              submitted |-> <<encoder>>, presented |-> TRUE,
              calls |-> <<"dispatch", "get_current_texture", "render_pass", "submit",
                          "present">>]

\* MainApp::render with the result of surface.get_current_texture()
MainApp_render(m, acquire) ==
    IF acquire # "Ok"
    THEN [m |-> m, result |-> acquire, encoder |-> <<>>, submitted |-> <<>>, presented |-> FALSE,
          calls |-> <<"get_current_texture">>]
    ELSE LET d == Pathtracer_dispatch(m.pt, <<>>)
             m1 == [m EXCEPT !.pt = d.pt]
             encoder == Append(d.encoder, RenderPass(m1))
         IN  [m |-> m1, result |-> "Ok", encoder |-> encoder,
              submitted |-> <<encoder>>, presented |-> TRUE,
              calls |-> <<"get_current_texture", "dispatch", "render_pass", "submit",
                          "present">>]

\* the mutant: window events are not forwarded to the camera controller
MainApp_window_event_skips_camera(m, event) ==
    m

\* MainApp::window_event (the handler's handle_input): imgui, then the camera
MainApp_window_event(m, event) ==
    [m EXCEPT !.cam = CameraController_window_event(m.cam, event)]

\* MainApp::device_event
MainApp_device_event(m, event) ==
    [m EXCEPT !.cam = CameraController_device_event(m.cam, event)]

-----------------------------------------------------------------------------
(* SpecApp: the event loop.  AppHandler::window_event runs one handler at  *)
(* a time; the RedrawRequested handler is split after app.update() so that *)
(* the state between update and render is a state of the model.            *)

SetMainApp(m) ==
    /\ wgpu' = m.wgpu
    /\ pt' = m.pt
    /\ cam' = m.cam
    /\ gpu_camera' = m.gpu_camera
    /\ app' = m.app

Idle == loop.pc = "idle" /\ ~loop.exiting

\* what one widget can report in a frame; a slider reports only a changed value,
\* the modal error popup blocks the other widgets while it is open
UiInputs(m) ==
    IF m.app.popup_open
    THEN { NoUi, [NoUi EXCEPT !.kind = "close"] }
    ELSE { NoUi }
         \cup { [NoUi EXCEPT !.kind = "res", !.n = f] :
                    f \in FactorValues \ {m.pt.resolution_factor} }
         \cup { [NoUi EXCEPT !.kind = "bounces", !.n = b] :
                    b \in BouncesValues \ {m.pt.bounces} }
         \cup { [NoUi EXCEPT !.kind = "clamp", !.q = q] :
                    q \in FilteringValues \ {Inverse(m.pt.throughput)} }
         \cup { [NoUi EXCEPT !.kind = "scene", !.n = i, !.ok = ok] :
                    i \in SceneFiles, ok \in BOOLEAN }
         \cup { [NoUi EXCEPT !.kind = "envmap", !.n = i, !.ok = ok] :
                    i \in EnvmapFiles, ok \in BOOLEAN }

\* the user or the window system changes the inner size of the window;
\* winit queues a Resized event
OSResize(size) ==
    /\ Idle
    /\ size # window.inner_size
    /\ inputs < MaxInputs
    /\ inputs' = inputs + 1
    /\ window' = [inner_size |-> size, resized_pending |-> TRUE]
    /\ frame' = NoFrame
    /\ UNCHANGED <<pt, wgpu, cam, gpu_camera, app, loop, orbited, api, cam_api, metrics, perf_api, bvh, ingest>>

\* AppHandler::window_event, WindowEvent::Resized
ResizedEvent ==
    /\ Idle
    /\ window.resized_pending
    /\ LET event == [kind |-> "Resized", size |-> window.inner_size]
           r == MainApp_resize(MainApp_window_event(MainApp, event), event.size)
       IN  /\ SetMainApp(r.m)
           /\ frame' = [NoFrame EXCEPT !.event = "Resized", !.resized = r.resized,
                                       !.configured = r.configured]
    /\ window' = [window EXCEPT !.resized_pending = FALSE]
    /\ loop' = [loop EXCEPT !.redraw_requested = TRUE]
    /\ UNCHANGED <<orbited, inputs, api, cam_api, metrics, perf_api, bvh, ingest>>

\* DeviceEvent::MouseWheel, forwarded to MainApp::device_event
MouseWheel(delta) ==
    /\ Idle
    /\ inputs < MaxInputs
    /\ inputs' = inputs + 1
    /\ SetMainApp(MainApp_device_event(MainApp, [kind |-> "MouseWheel", delta |-> delta]))
    /\ orbited' = IF pt.sample > 10 \/ orbited = "many" THEN "many" ELSE "few"
    /\ frame' = [NoFrame EXCEPT !.event = "MouseWheel"]
    /\ UNCHANGED <<window, loop, api, cam_api, metrics, perf_api, bvh, ingest>>

\* AppHandler::window_event, WindowEvent::CloseRequested or Escape pressed
CloseRequested ==
    /\ Idle
    /\ SetMainApp(MainApp_window_event(MainApp, [kind |-> "CloseRequested"]))
    /\ loop' = [loop EXCEPT !.exiting = TRUE]
    /\ frame' = [NoFrame EXCEPT !.event = "CloseRequested"]
    /\ UNCHANGED <<window, orbited, inputs, api, cam_api, metrics, perf_api, bvh, ingest>>

\* AppHandler::window_event, WindowEvent::RedrawRequested, up to the end of app.update()
RedrawFrameUpdate(ui) ==
    /\ Idle
    /\ loop.redraw_requested
    /\ LET u == MainApp_update(MainApp_window_event(MainApp, [kind |-> "RedrawRequested"]), ui)
       IN  /\ SetMainApp(u.m)
           /\ frame' = [NoFrame EXCEPT !.event = "RedrawRequested", !.ui = ui,
                                       !.cam_updated = u.cam_updated,
                                       !.calls = <<"update">>]
    /\ inputs' = IF ui.kind = "none" THEN inputs ELSE inputs + 1
    /\ loop' = [loop EXCEPT !.pc = "updated", !.redraw_requested = FALSE]
    /\ UNCHANGED <<window, orbited, api, cam_api, metrics, perf_api, bvh, ingest>>

\* the same step within the bounds of SpecApp: the frames explored stay below
\* MaxAccum samples and MaxInputs user inputs
RedrawUpdate(ui) ==
    /\ MainApp_update(MainApp_window_event(MainApp, [kind |-> "RedrawRequested"]), ui).m.pt.sample
          < MaxAccum
    /\ ui.kind # "none" => inputs < MaxInputs
    /\ RedrawFrameUpdate(ui)

\* AppHandler::window_event, WindowEvent::RedrawRequested, from app.render() on
RedrawRender(acquire) ==
    /\ loop.pc = "updated"
    /\ LET r == MainApp_render(MainApp, acquire)
           z == IF r.result = "Lost"
                THEN MainApp_resize(r.m, window.inner_size)
                ELSE [m |-> r.m, resized |-> "none", configured |-> FALSE]
           dispatched == Len(r.encoder) = 2
       IN  /\ SetMainApp(z.m)
           /\ frame' = [NoFrame EXCEPT !.event = "RedrawRequested",
                                       !.acquire = r.result,
                                       !.encoder = r.encoder,
                                       !.submitted = r.submitted,
                                       !.presented = r.presented,
                                       !.resized = z.resized,
                                       !.configured = z.configured,
                                       !.after_orbit = IF dispatched THEN orbited ELSE "none",
                                       !.calls = frame.calls \o r.calls]
           /\ orbited' = IF dispatched THEN "no" ELSE orbited
           /\ loop' = [pc |-> "idle", redraw_requested |-> TRUE,
                       exiting |-> (r.result = "OutOfMemory")]
    /\ UNCHANGED <<window, inputs, api, cam_api, metrics, perf_api, bvh, ingest>>

\* mouse-wheel deltas of SpecApp, in orbit steps
WheelDeltas == { <<1, 0>> }

NextApp ==
    \/ \E size \in WindowSizes : OSResize(size)
    \/ ResizedEvent
    \/ \E delta \in WheelDeltas : MouseWheel(delta)
    \/ CloseRequested
    \/ \E ui \in UiInputs(MainApp) : RedrawUpdate(ui)
    \/ \E acquire \in AcquireResults : RedrawRender(acquire)

SpecApp == Init /\ [][NextApp]_vars

-----------------------------------------------------------------------------
(* Invalidation, under SpecApp                                             *)

\* the widget input of the frame is one of the changes C4 lists
SignalChange(ui) ==
    \/ ui.kind \in {"res", "bounces", "clamp"}
    \/ ui.kind \in {"scene", "envmap"} /\ ui.ok

\* C4: at the end of MainApp::update, before the frame's dispatch, sample = 0
\* whenever the frame's GUI reported a resolution-factor, bounces or clamp slider
\* change, or a scene or envmap reload that succeeded
C4_ChangesLeaveSampleZero ==
    (loop.pc = "updated" /\ SignalChange(frame.ui)) => pt.sample = 0

\* a bounces change in a frame whose camera was clean, after samples had accumulated
C4_Witness ==
    /\ loop.pc = "updated"
    /\ frame.ui.kind = "bounces"
    /\ ~frame.cam_updated
    /\ pt.bounces = 32
    /\ pt.weight = <<1, 3>>
    /\ pt.sample = 0

\* C5: once the camera has orbited, every update ends with sample = 0, and the
\* first compute pass recorded afterwards carries sample = 1 and weight = 1.0,
\* however many frames (in particular more than 10) had accumulated before
C5_OrbitRestartsAccumulation ==
    /\ (loop.pc = "updated" /\ orbited # "no") => pt.sample = 0
    /\ frame.after_orbit \in {"few", "many"} =>
          /\ Len(frame.encoder) = 2
          /\ frame.encoder[1].pass = "compute"
          /\ frame.encoder[1].push.sample = 1
          /\ frame.encoder[1].push.weight = One
          /\ pt.sample = 1
          /\ pt.weight = One

\* the orbit came after more than 10 accumulated frames
C5_Witness ==
    /\ frame.after_orbit = "many"
    /\ frame.acquire = "Ok"
    /\ frame.encoder[1].push.sample = 1
    /\ frame.encoder[1].push.weight = One

-----------------------------------------------------------------------------
(* Resize, under SpecApp                                                   *)

\* C7: a MainApp::resize call (from the Resized handler or after a lost
\* surface) with the size equal to the surface configuration returns early
\* and leaves the surface configuration, the depth texture, the output
\* texture, the bind group and the sample counter as they were
C7_SameSizeResizeIsNoOp ==
    [][((frame'.event = "Resized" \/ frame'.acquire = "Lost")
          /\ window.inner_size = <<wgpu.config.width, wgpu.config.height>>) =>
          /\ frame'.resized = "skipped"
          /\ wgpu' = wgpu
          /\ app'.depth_texture = app.depth_texture
          /\ pt'.output = pt.output
          /\ pt'.global_group = pt.global_group
          /\ pt'.sample = pt.sample]_vars

\* a Resized event of the current size, with samples accumulated
C7_Witness ==
    /\ frame.event = "Resized"
    /\ frame.resized = "skipped"
    /\ ~frame.configured
    /\ pt.sample > 0

\* C8: the bind group always binds the current output texture; a step that
\* ran the resize procedure (resize not skipped, or a "Res" slider change)
\* ends with sample = 0 and a newly created output texture in the binding
C8_ResizeRebindsOutput ==
    /\ [](pt.global_group.texture = pt.output.id)
    /\ [][(frame'.resized = "done" \/ frame'.ui.kind = "res") =>
             /\ pt'.sample = 0
             /\ pt'.output.id # pt.output.id
             /\ pt'.output.id # pt.global_group.texture
             /\ pt'.global_group.texture = pt'.output.id]_vars

\* a window resize that discarded accumulated samples
C8_Witness ==
    /\ frame.event = "Resized"
    /\ frame.resized = "done"
    /\ pt.sample = 0
    /\ pt.weight = <<1, 2>>
    /\ wgpu.config = [width |-> 1000, height |-> 1000]
    /\ pt.global_group.texture = pt.output.id

\* floor(surface_dim * factor / 8) * 8: the largest multiple of 8 not above
\* surface_dim * factor (factor in tenths)
IsFloorToWorkgroups(out_dim, surface_dim, tenths) ==
    /\ out_dim % 8 = 0
    /\ out_dim * 10 <= surface_dim * tenths
    /\ (out_dim + 8) * 10 > surface_dim * tenths

\* C9: the output texture is always floor(surface * resolution_factor / 8) * 8
\* wide and high, and every recorded compute pass dispatches a grid of
\* (width / 8, height / 8, 1) workgroups of 8 x 8 threads: exactly the image
C9_OutputCoveredByWorkgroups ==
    /\ IsFloorToWorkgroups(pt.output.width, wgpu.config.width, pt.resolution_factor)
    /\ IsFloorToWorkgroups(pt.output.height, wgpu.config.height, pt.resolution_factor)
    /\ \A i \in 1..Len(frame.encoder) :
          frame.encoder[i].pass = "compute" =>
             /\ frame.encoder[i].n_workgroups[1] * 8 = pt.output.width
             /\ frame.encoder[i].n_workgroups[2] * 8 = pt.output.height
             /\ frame.encoder[i].n_workgroups[3] = 1

\* surface 1000 x 1000 at factor 0.5: 496 x 496, a grid of 62 x 62 workgroups
C9_Witness ==
    /\ wgpu.config = [width |-> 1000, height |-> 1000]
    /\ pt.resolution_factor = 5
    /\ pt.output.width = 496
    /\ pt.output.height = 496
    /\ Len(frame.encoder) = 2
    /\ frame.encoder[1].n_workgroups = <<62, 62, 1>>

\* C10 as stated: a frame whose render returned SurfaceError::Lost ends with
\* the surface reconfigured
C10_LostReconfiguresSurface ==
    frame.acquire = "Lost" => frame.configured

-----------------------------------------------------------------------------
(* Error handling, under SpecApp                                           *)

\* C11: a frame whose acquire fails with Outdated or Timeout records no
\* compute pass, leaves the Pathtracer (sample and weight included) as
\* update left it, submits and presents nothing, does not exit and requests
\* the next redraw
C11_TransientErrorDropsFrame ==
    [][(loop.pc = "updated" /\ frame'.acquire \in {"Outdated", "Timeout"}) =>
          /\ frame'.encoder = <<>>
          /\ frame'.submitted = <<>>
          /\ ~frame'.presented
          /\ pt' = pt
          /\ wgpu' = wgpu
          /\ app' = app
          /\ frame'.resized = "none"
          /\ ~loop'.exiting
          /\ loop'.redraw_requested
          /\ loop'.pc = "idle"]_vars

\* a timeout in the middle of an accumulation
C11_Witness ==
    /\ frame.acquire = "Timeout"
    /\ pt.sample = 3
    /\ pt.weight = <<1, 3>>
    /\ loop.redraw_requested
    /\ ~loop.exiting

\* C12: a frame in which the "Scene" or "Environment" combo picked a file
\* that failed to load ends its update with the error popup open and the
\* loaded scene and envmap unchanged; the load itself leaves the Pathtracer
\* alone (sample changes only if the camera was dirty in that frame)
C12_FailedLoadKeepsState ==
    [][(loop.pc = "idle" /\ loop'.pc = "updated"
          /\ frame'.ui.kind \in {"scene", "envmap"} /\ ~frame'.ui.ok) =>
          /\ app'.popup_open
          /\ app'.scene = app.scene
          /\ app'.envmap = app.envmap
          /\ ~frame'.cam_updated => pt' = pt
          /\ frame'.cam_updated => pt' = Pathtracer_invalidate(pt)]_vars

\* a failed scene load in the middle of an accumulation
C12_Witness ==
    /\ loop.pc = "updated"
    /\ frame.ui.kind = "scene"
    /\ ~frame.ui.ok
    /\ ~frame.cam_updated
    /\ app.popup_open
    /\ app.scene_index = 1
    /\ app.scene = 0
    /\ pt.sample = 3

\* C17 as stated: whenever a compute pass is recorded, the sample-sequence
\* buffer holds max_sample_count * (bounces * LDS_PER_BOUNCE + 1) entries for
\* the bounces value pushed to the kernel, so that every [sample_index, dim_set]
\* the kernel can form lies inside it
C17_SequenceCoversBounces ==
    \A i \in 1..Len(frame.encoder) :
        frame.encoder[i].pass = "compute" =>
            pt.lds_len >= pt.max_sample_count
                            * (frame.encoder[i].push.bounces * LDS_PER_BOUNCE + 1)

-----------------------------------------------------------------------------
(* The order of one frame and the Resized event, under SpecApp             *)

\* the passes of a submitted encoder: compute passes, then the render pass
ComputeThenRender(encoder) ==
    /\ Len(encoder) \in {1, 2}
    /\ \A i \in 1..(Len(encoder) - 1) : encoder[i].pass = "compute"
    /\ encoder[Len(encoder)].pass = "render"
    /\ Len(encoder[Len(encoder)].draws) = 2
    /\ encoder[Len(encoder)].draws[1].draw = "blit"
    /\ encoder[Len(encoder)].draws[2].draw = "imgui"

\* C22: within one frame MainApp::update completes before render; render acquires
\* the swap image first, then records the compute dispatch, then one render pass
\* that runs the blit and then the overlay, then submits the single command
\* buffer, then presents; a failed acquire records, submits and presents nothing
C22_FrameOrder ==
    /\ loop.pc = "updated" =>
          /\ frame.calls = <<"update">>
          /\ frame.acquire = "none" /\ frame.encoder = <<>> /\ ~frame.presented
    /\ frame.acquire = "Ok" =>
          /\ frame.calls = <<"update", "get_current_texture", "dispatch", "render_pass",
                             "submit", "present">>
          /\ ComputeThenRender(frame.encoder)
          /\ frame.submitted = <<frame.encoder>>
          /\ frame.presented
    /\ frame.acquire \notin {"Ok", "none"} =>
          /\ frame.calls = <<"update", "get_current_texture">>
          /\ frame.encoder = <<>> /\ frame.submitted = <<>> /\ ~frame.presented

\* a presented frame whose command buffer holds the compute pass and the render pass
C22_Witness ==
    /\ loop.pc = "idle"
    /\ frame.acquire = "Ok"
    /\ Len(frame.encoder) = 2
    /\ frame.presented

\* C29: every Resized window event reaches CameraController::window_event, which
\* sets the aspect ratio and the dirty flag; the flag stays set until an update,
\* and the MainApp::update that finds it set leaves globals.sample = 0, whether
\* or not MainApp::resize rebuilt anything for that size
C29_ResizedInvalidates ==
    /\ [](frame.event = "Resized" =>
            cam.is_dirty /\ cam.aspect_ratio = window.inner_size)
    /\ [][(cam.is_dirty /\ ~cam'.is_dirty) => loop'.pc = "updated"]_vars
    /\ [][(cam.is_dirty /\ loop.pc = "idle" /\ loop'.pc = "updated") =>
            (pt'.sample = 0 /\ frame'.cam_updated)]_vars

\* the update after a Resized event for the size the surface already has: no
\* wheel input is pending, the two inputs were resizes of the window, the
\* Resized event has been handled, and the update found the camera dirty
C29_Witness ==
    /\ loop.pc = "updated"
    /\ frame.cam_updated
    /\ frame.ui.kind = "none"
    /\ orbited = "no"
    /\ inputs = MaxInputs
    /\ ~window.resized_pending
    /\ window.inner_size = <<wgpu.config.width, wgpu.config.height>>
    /\ window.inner_size = InitialWindowSize
    /\ pt.sample = 0

-----------------------------------------------------------------------------
(* SpecRefine: redraw after redraw with no input, a stationary camera and  *)
(* no parameter or scene change.  The event loop delivers the redraw each  *)
(* frame requests (weak fairness of the update); the swap-image acquire    *)
(* may fail with Timeout, Outdated or Lost but succeeds again and again    *)
(* (strong fairness of the render step with Ok).                           *)

\* the acquire results after which the event loop keeps running
RecoverableAcquires == AcquireResults \ {"OutOfMemory"}

NextRefine ==
    \/ RedrawFrameUpdate(NoUi)
    \/ \E acquire \in RecoverableAcquires : RedrawRender(acquire)

SpecRefine ==
    /\ Init
    /\ [][NextRefine]_vars
    /\ WF_vars(RedrawFrameUpdate(NoUi))
    /\ SF_vars(RedrawRender("Ok"))

\* C30: progressive refinement completes: every handled redraw requests another
\* redraw, globals.sample eventually equals max_sample_count and stays equal to
\* it, and frames keep being blitted and presented
C30_RefinementCompletes ==
    /\ [][(loop.pc = "updated" /\ loop'.pc = "idle") => loop'.redraw_requested]_vars
    /\ <>[](pt.sample = pt.max_sample_count)
    /\ []<>(frame.acquire = "Ok" /\ frame.presented /\ ComputeThenRender(frame.encoder))

\* a frame presented after the budget is spent: the blit and the overlay only
C30_Witness ==
    /\ pt.sample = pt.max_sample_count
    /\ pt.max_sample_count = DefaultMaxSampleCount
    /\ frame.acquire = "Ok"
    /\ frame.presented
    /\ Len(frame.encoder) = 1
    /\ loop.redraw_requested

-----------------------------------------------------------------------------
(* SpecMetrics: the public methods of PerformanceMetrics, called in any    *)
(* order, the monotonic clock advancing between the calls                  *)

\* time that passes between two calls
Elapsed == { 0, 1, 5 }

PerfOnly == UNCHANGED <<pt, wgpu, cam, gpu_camera, app, window, loop, frame, orbited, inputs,
                        api, cam_api, bvh, ingest>>

Perf_NextFrame(dt) ==
    /\ perf_api.calls < MaxFrames
    /\ LET now == perf_api.now + dt IN
       /\ metrics' = PerformanceMetrics_next_frame(metrics, now)
       /\ perf_api' = [now      |-> now,
                       recorded |-> IF metrics.last_frame = None
                                    THEN perf_api.recorded
                                    ELSE Append(perf_api.recorded, now - metrics.last_frame[1]),
                       calls    |-> perf_api.calls + 1,
                       last     |-> "next_frame",
                       before   |-> metrics]
    /\ PerfOnly

Perf_Pause(dt) ==
    /\ perf_api.calls < MaxFrames
    /\ perf_api.last # "pause"
    /\ metrics' = PerformanceMetrics_pause(metrics)
    /\ perf_api' = [perf_api EXCEPT !.now = @ + dt, !.last = "pause", !.before = metrics]
    /\ PerfOnly

NextMetrics ==
    \/ \E dt \in Elapsed : Perf_NextFrame(dt)
    \/ \E dt \in Elapsed : Perf_Pause(dt)

SpecMetrics == Init /\ [][NextMetrics]_vars

RECURSIVE SumSeq(_)
SumSeq(q) == IF q = <<>> THEN 0 ELSE Head(q) + SumSeq(Tail(q))

\* the i-th most recent recorded duration, i = 1 the latest
Recent(i) == perf_api.recorded[Len(perf_api.recorded) - i + 1]

\* C18: with r durations recorded so far, the ring buffer holds the most
\* recent min(r, BUFFER_SIZE) of them (the oldest evicted once full), the
\* rolling sum is their sum, and avg_frame_time is that sum divided by
\* min(r, BUFFER_SIZE) (zero while nothing is recorded)
C18_RollingSumOfRecentFrames ==
    LET r == Len(perf_api.recorded)
        k == Min(r, BufferSize)
    IN  /\ metrics.n_frames = k
        /\ metrics.idx = r % BufferSize
        /\ metrics.summed_frame_time = SumSeq(SubSeq(perf_api.recorded, r - k + 1, r))
        /\ \A i \in 1..k :
              metrics.frame_time_buffer[(metrics.idx + BufferSize - i) % BufferSize] = Recent(i)
        /\ k > 0 => PerformanceMetrics_avg_frame_time(metrics) * k <= metrics.summed_frame_time
        /\ k > 0 => (PerformanceMetrics_avg_frame_time(metrics) + 1) * k > metrics.summed_frame_time
        /\ k = 0 => PerformanceMetrics_avg_frame_time(metrics) = 0

\* two more durations recorded than the buffer holds, a long one evicted, a pause in between
C18_Witness ==
    /\ Len(perf_api.recorded) = BufferSize + 2
    /\ perf_api.recorded[1] = 5
    /\ perf_api.recorded[2] = 5
    /\ perf_api.calls = MaxFrames
    /\ metrics.n_frames = BufferSize
    /\ metrics.summed_frame_time = BufferSize

\* C19: a next_frame call made while last_frame is None (initially or after
\* pause) sets last_frame and changes no other field
C19_FirstCallOnlyStamps ==
    [][(perf_api'.last = "next_frame" /\ perf_api'.calls = perf_api.calls + 1
          /\ metrics.last_frame = None) =>
          /\ metrics'.last_frame = Some(perf_api'.now)
          /\ metrics' = [metrics EXCEPT !.last_frame = Some(perf_api'.now)]
          /\ perf_api'.recorded = perf_api.recorded]_vars

\* the call after a pause that followed recorded frames
C19_Witness ==
    /\ perf_api.last = "next_frame"
    /\ perf_api.before.last_frame = None
    /\ perf_api.before.n_frames = 2
    /\ metrics.last_frame = Some(perf_api.now)
    /\ perf_api.now > 0
    /\ metrics.n_frames = 2

-----------------------------------------------------------------------------
(* SpecBVH: one run of BVHTree::build_bvh on a mesh, a step per iteration  *)
(* of its loop                                                             *)

\* triangles given by their corners: two flat ones apart on x and y, a
\* point-sized one, and one with thickness
TriangleShapes ==
    { << <<0, 0, 0>>, <<1, 0, 0>>, <<0, 1, 0>> >>,
      << <<4, 0, 0>>, <<5, 0, 1>>, <<4, 1, 1>> >>,
      << <<0, 6, 0>>, <<2, 6, 0>>, <<0, 8, 0>> >>,
      << <<9, 9, 9>>, <<9, 9, 9>>, <<9, 9, 9>> >> }

\* the corners of the triangles, one after the other
Corners(shapes) ==
    [i \in 1..(3 * Len(shapes)) |-> shapes[((i - 1) \div 3) + 1][((i - 1) % 3) + 1]]

\* a mesh without shared vertices: triangle t has the indices 3t, 3t + 1, 3t + 2
MeshOf(shapes) ==
    [vertices |-> Corners(shapes), indices |-> [i \in 1..(3 * Len(shapes)) |-> i - 1]]

\* n triangles in a row along x, every second one raised on z
RowMesh(n) ==
    MeshOf([t \in 1..n |-> << <<3 * t, 0, t % 2>>, <<3 * t + 1, 0, t % 2>>,
                              <<3 * t, 1, t % 2>> >>])

\* a triangle in the plane z = 0 with the corners at x0, x1, x2 and the last
\* corner raised by 1 on y: its centre is at x = (x0 + x1 + x2) / 3, y = 1 / 3
FlatTriangle(x0, x1, x2) == << <<x0, 0, 0>>, <<x1, 0, 0>>, <<x2, 1, 0>> >>

\* n colinear triangles along x with their centres at x = 0 .. n - 1
ColinearMesh(n) == MeshOf([t \in 1..n |-> FlatTriangle(t - 2, t - 1, t)])

\* 44 triangles that all start at x = 0, with the centres 399, 398, .. and
\* twice the centre as far end: the binned split takes off one triangle per
\* level, so that the build goes beyond 32 levels
DeepMesh == MeshOf([t \in 1..44 |-> FlatTriangle(0, 400 - t, 2 * (400 - t))])

\* `narrow` short triangles around x = 3500000 and `wide` triangles that span
\* 0 .. 6705499 with their centres at 3771843, 3771844, ..: the f32 quotient
\* 16 * 3771843 / 6705499 is rounded to 9.0
WideMesh(narrow, wide) ==
    LET WideEnd == 6705499
        WideCentre == 3771843
    IN  MeshOf([t \in 1..(narrow + wide) |->
                  IF t <= narrow
                  THEN FlatTriangle(3500000 + 3 * (t - 1), 3500003 + 3 * (t - 1),
                                    3500000 + 3 * (t - 1))
                  ELSE FlatTriangle(0, 3 * (WideCentre + t - narrow - 1) - WideEnd, WideEnd)])

Meshes ==
    { MeshOf(shapes) : shapes \in UNION { [1..n -> TriangleShapes] : n \in 1..MaxTriangles } }
        \cup { RowMesh(11), RowMesh(12), ColinearMesh(11), ColinearMesh(12), DeepMesh,
               WideMesh(6, 6), WideMesh(11, 1) }

BvhOnly == UNCHANGED <<pt, wgpu, cam, gpu_camera, app, window, loop, frame, orbited, inputs,
                       api, cam_api, metrics, perf_api, ingest>>

\* build_bvh up to the loop: triangle cache, root leaf, first stack entry
BVH_Build(mesh) ==
    /\ bvh.pc = "idle"
    /\ LET triangles == TriangleCache(mesh)
           count == Len(triangles)
       IN  bvh' = [pc        |-> "loop",
                   mesh      |-> mesh,
                   vertices  |-> mesh.vertices,
                   cache     |-> triangles,
                   triangles |-> triangles,
                   nodes     |-> << BVHTree_build_leaf(triangles, 0, count) >>,
                   covered   |-> << [index |-> 0, count |-> count] >>,
                   stack     |-> << [depth |-> 0, node_index |-> 0] >>,
                   indices   |-> <<>>,
                   last      |-> NoPop]
    /\ BvhOnly

\* one iteration of the loop: pop, skip at MAX_DEPTH, else split_node
BVH_Pop ==
    /\ bvh.pc = "loop"
    /\ bvh.stack # <<>>
    /\ LET top == bvh.stack[Len(bvh.stack)]
           rest == SubSeq(bvh.stack, 1, Len(bvh.stack) - 1)
           node == bvh.nodes[top.node_index + 1]
           left_index == Len(bvh.nodes)
           right_index == left_index + 1
           popped == [NoPop EXCEPT !.depth = top.depth, !.node_index = top.node_index,
                                   !.node = node, !.before = bvh.triangles]
       IN  IF DepthCapped(top.depth)
           THEN bvh' = [bvh EXCEPT !.stack = rest, !.last = [popped EXCEPT !.kind = "capped"]]
           ELSE \E r \in { BVHTree_split_node(bvh.triangles, node) } :
                \E search \in { SplitCandidates(bvh.triangles, node) } :
                LET called == [popped EXCEPT
                                 !.kind = "split_node",
                                 !.branch = search.branch,
                                 !.candidates = search.candidates,
                                 !.selected = BestScan(CostsOf(search.candidates), 1,
                                                       BVHNode_cost(node), <<>>),
                                 !.result = r.result]
                IN  IF r.result = <<>>
                    THEN bvh' = [bvh EXCEPT !.stack = rest, !.triangles = r.triangles,
                                            !.last = called]
                    ELSE bvh' = [bvh EXCEPT
                           !.last = called,
                           !.triangles = r.triangles,
                           !.nodes = [bvh.nodes EXCEPT ![top.node_index + 1] =
                                          BVHNode_make_inner(node, left_index)] \o r.result,
                           !.covered = bvh.covered
                              \o << [index |-> r.result[1].index, count |-> r.result[1].count],
                                    [index |-> r.result[2].index, count |-> r.result[2].count] >>,
                           !.stack = rest
                              \o << [depth |-> top.depth + 1, node_index |-> left_index],
                                    [depth |-> top.depth + 1, node_index |-> right_index] >>]
    /\ BvhOnly

\* build_bvh after the loop: the index buffer is flattened from the triangles
BVH_Finish ==
    /\ bvh.pc = "loop"
    /\ bvh.stack = <<>>
    /\ bvh' = [bvh EXCEPT !.pc = "done", !.indices = FlatIndices(bvh.triangles)]
    /\ BvhOnly

NextBVH ==
    \/ \E mesh \in Meshes : BVH_Build(mesh)
    \/ BVH_Pop
    \/ BVH_Finish

SpecBVH == Init /\ [][NextBVH]_vars

-----------------------------------------------------------------------------
(* The tree build_bvh returns, under SpecBVH                               *)

NodeIds == 0..(Len(bvh.nodes) - 1)

LeafIds == { n \in NodeIds : BVHNode_is_leaf(bvh.nodes[n + 1]) }

InnerIds == NodeIds \ LeafIds

VecLeq(a, b) == \A k \in Axes : a[k] <= b[k]

RECURSIVE Reachable(_)
\* the positions of the primitives in the leaves of the subtree of node n
Reachable(n) ==
    LET node == bvh.nodes[n + 1] IN
    IF BVHNode_is_leaf(node) THEN NodeRange(node)
    ELSE Reachable(node.index) \cup Reachable(node.index + 1)

\* the range node n was built over as a leaf
Covered(n) == NodeRange(bvh.covered[n + 1])

\* C13: in the tree returned, the box of every node contains the box of every
\* primitive in the leaves below it
C13_NodeBoundsContainPrimitives ==
    bvh.pc = "done" =>
        \A n \in NodeIds : \A p \in Reachable(n) :
            /\ VecLeq(bvh.nodes[n + 1].min, bvh.triangles[p + 1].min)
            /\ VecLeq(bvh.triangles[p + 1].max, bvh.nodes[n + 1].max)

\* a tree with inner nodes over three triangles of different boxes
C13_Witness ==
    /\ bvh.pc = "done"
    /\ Len(bvh.triangles) = 3
    /\ Len(bvh.nodes) = 5
    /\ bvh.nodes[1].min = <<0, 0, 0>>
    /\ bvh.nodes[1].max = <<5, 8, 1>>

\* C14: in the tree returned, the two subtrees of every inner node hold
\* disjoint sets of primitives whose union is the range the node was built
\* over; the leaves partition the whole range
C14_SubtreesPartitionRange ==
    bvh.pc = "done" =>
        /\ \A n \in InnerIds :
              LET left == bvh.nodes[n + 1].index IN
              /\ Reachable(left) \cap Reachable(left + 1) = {}
              /\ Reachable(left) \cup Reachable(left + 1) = Covered(n)
              /\ Covered(left) \cap Covered(left + 1) = {}
              /\ Covered(left) \cup Covered(left + 1) = Covered(n)
        /\ \A p \in 0..(Len(bvh.triangles) - 1) :
              Cardinality({ n \in LeafIds : p \in NodeRange(bvh.nodes[n + 1]) }) = 1

\* the row of twelve triangles, split by binning
C14_Witness ==
    /\ bvh.pc = "done"
    /\ Len(bvh.triangles) = 12
    /\ Cardinality(InnerIds) >= 2
    /\ \E n \in InnerIds : Cardinality(Covered(n)) < 12

\* C15 as stated, the node read as {min, start, max, end}: every node is a
\* leaf with end > start and at most as many primitives as the input, or an
\* inner node with end = 0 and its two children at start and start + 1
C15_LeafEndAboveStart ==
    bvh.pc = "done" =>
        \A n \in NodeIds :
            LET start == bvh.nodes[n + 1].index
                end == bvh.nodes[n + 1].count
            IN  \/ end > start /\ end - start <= Len(bvh.triangles)
                \/ end = 0 /\ start \in NodeIds /\ start + 1 \in NodeIds

\* C15 amended, the node as the code writes it, {min, index, max, count}:
\* every node is a leaf with count > 0 covering the primitives
\* index .. index + count - 1 of the input, or an inner node with count = 0
\* whose children are the later nodes index and index + 1
C15_LeafCountPositive ==
    bvh.pc = "done" =>
        \A n \in NodeIds :
            LET node == bvh.nodes[n + 1] IN
            \/ /\ node.count > 0
               /\ node.index + node.count <= Len(bvh.triangles)
               /\ node.count <= Len(bvh.triangles)
               /\ [index |-> node.index, count |-> node.count] = bvh.covered[n + 1]
            \/ /\ node.count = 0
               /\ node.index > n
               /\ node.index \in NodeIds
               /\ node.index + 1 \in NodeIds

\* a leaf that does not start at 0: its count is not above its index
C15_Witness ==
    /\ bvh.pc = "done"
    /\ Len(bvh.nodes) = 3
    /\ bvh.nodes[1].count = 0
    /\ bvh.nodes[1].index = 1
    /\ bvh.nodes[3].index = 1
    /\ bvh.nodes[3].count = 1

\* how often x occurs in the sequence q
Occurrences(q, x) == Cardinality({ i \in DOMAIN q : q[i] = x })

SamePrimitives(p, q) ==
    /\ Len(p) = Len(q)
    /\ \A i \in DOMAIN p : Occurrences(p, p[i]) = Occurrences(q, p[i])

\* the index triplets of a flat index buffer
Triplets(indices) == [t \in 1..(Len(indices) \div 3) |-> SubSeq(indices, 3 * t - 2, 3 * t)]

\* C16: the triangles returned are the cached triangles reordered (each as
\* often as before), the index buffer emitted holds the triplets of the mesh
\* reordered the same way, and an iteration of the loop moves no primitive
\* outside the range of the node it pops
C16_BuildPermutesPrimitives ==
    /\ [](bvh.pc = "done" =>
            /\ SamePrimitives(bvh.triangles, bvh.cache)
            /\ SamePrimitives(Triplets(bvh.indices), Triplets(bvh.mesh.indices))
            /\ \A t \in DOMAIN bvh.triangles :
                  Triplets(bvh.indices)[t] = bvh.triangles[t].indices)
    /\ [][(bvh.pc = "loop" /\ bvh.stack # <<>>) =>
            /\ SamePrimitives(bvh'.triangles, bvh.triangles)
            /\ \A p \in 0..(Len(bvh.triangles) - 1) :
                  p \notin NodeRange(bvh.nodes[bvh.stack[Len(bvh.stack)].node_index + 1])
                      => bvh'.triangles[p + 1] = bvh.triangles[p + 1]]_vars

\* a build that did reorder the three triangles of its mesh
C16_Witness ==
    /\ bvh.pc = "done"
    /\ Len(bvh.triangles) = 3
    /\ bvh.triangles # bvh.cache
    /\ bvh.indices # bvh.mesh.indices
    /\ Cardinality({ bvh.triangles[t].indices : t \in 1..3 }) = 3

\* C20: a mesh of one triangle gives one node, a leaf of count 1; a mesh of
\* two triangles gives one leaf of count 2, or an inner root over two leaves
\* of count 1, and this only if the two leaves together cost less than the
\* root did as a leaf of count 2
C20_SmallInputs ==
    bvh.pc = "done" =>
        /\ Len(bvh.cache) = 1 =>
              /\ Len(bvh.nodes) = 1
              /\ bvh.nodes[1].count = 1
              /\ bvh.nodes[1].index = 0
        /\ Len(bvh.cache) = 2 =>
              \/ /\ Len(bvh.nodes) = 1
                 /\ bvh.nodes[1].count = 2
                 /\ bvh.nodes[1].index = 0
              \/ /\ Len(bvh.nodes) = 3
                 /\ bvh.nodes[1].count = 0
                 /\ bvh.nodes[1].index = 1
                 /\ bvh.nodes[2].count = 1 /\ bvh.nodes[2].index = 0
                 /\ bvh.nodes[3].count = 1 /\ bvh.nodes[3].index = 1
                 /\ HalfArea(bvh.nodes[2].min, bvh.nodes[2].max)
                      + HalfArea(bvh.nodes[3].min, bvh.nodes[3].max)
                      < 2 * HalfArea(bvh.nodes[1].min, bvh.nodes[1].max)

\* two triangles apart from each other, split into two leaves
C20_Witness ==
    /\ bvh.pc = "done"
    /\ Len(bvh.cache) = 2
    /\ Len(bvh.nodes) = 3
    /\ bvh.nodes[2].count = 1
    /\ bvh.nodes[3].count = 1

-----------------------------------------------------------------------------
(* One iteration of the build loop, under SpecBVH: bvh.last holds the node *)
(* popped, what split_node weighed and returned, and the triangles before. *)

\* the latest iteration called split_node
Called == bvh.last.kind = "split_node"

\* the candidate left in `result` by the scan of the latest iteration, 0 for None
Chosen ==
    IF bvh.last.selected = <<>> THEN 0 ELSE bvh.last.selected[Len(bvh.last.selected)]

\* the latest iteration went on to call split with the chosen Split
SplitCalled == Called /\ bvh.last.branch \in {"brute", "binned"} /\ Chosen # 0

\* the positions of a node whose centre lies below the split position
LeftPositions(triangles, node, split) ==
    { p \in NodeRange(node) : 16 * triangles[p + 1].center3[split.axis] < split.mid48 }

\* the triangles at a set of positions
TrianglesAt(triangles, S) == { triangles[p + 1] : p \in S }

\* the node popped by the latest iteration is still the leaf it was
StaysLeaf ==
    /\ bvh.nodes[bvh.last.node_index + 1] = bvh.last.node
    /\ BVHNode_is_leaf(bvh.nodes[bvh.last.node_index + 1])

\* C23: split_node returns None, and the node stays a leaf, if and only if
\* every candidate costs at least as much as the parent or the partition for
\* the chosen candidate has an empty side; every candidate the scan takes
\* costs strictly less than the parent and than every earlier candidate
C23_SplitFailsIff ==
    Called =>
        LET costs == CostsOf(bvh.last.candidates)
            parent_cost == BVHNode_cost(bvh.last.node)
            none_cheaper == \A k \in DOMAIN costs : ~CostLess(costs[k], parent_cost)
            left == LeftPositions(bvh.last.before, bvh.last.node,
                                  SplitOf(bvh.last.candidates[Chosen]))
            empty_side == SplitCalled /\ (left = {} \/ left = NodeRange(bvh.last.node))
        IN  /\ (bvh.last.result = <<>>) <=> (none_cheaper \/ empty_side)
            /\ bvh.last.result = <<>> => StaysLeaf
            /\ \A n \in DOMAIN bvh.last.selected :
                  LET c == bvh.last.selected[n] IN
                  /\ CostLess(costs[c], parent_cost)
                  /\ \A k \in 1..(c - 1) : CostLess(costs[c], costs[k])

\* a split rejected for an empty side although a candidate was cheaper than the parent
C23_Witness ==
    /\ Called
    /\ bvh.last.branch = "binned"
    /\ Chosen # 0
    /\ bvh.last.result = <<>>
    /\ bvh.last.node.count = 12

\* C24: after split, the left child's range holds exactly the primitives with
\* center[axis] < mid, from parent.index on in the order they were met, and
\* the rest of the range those with center[axis] >= mid, the ones equal to
\* mid among them; with an empty side the split is rejected and the node
\* stays a leaf
C24_PartitionByMid ==
    SplitCalled =>
        LET node == bvh.last.node
            split == SplitOf(bvh.last.candidates[Chosen])
            before == bvh.last.before
            IsLeft(t) == 16 * t.center3[split.axis] < split.mid48
            lefts == SelectSeq(SubSeq(before, node.index + 1, node.index + node.count), IsLeft)
            left_count == Len(lefts)
            right_range == (node.index + left_count)..(node.index + node.count - 1)
        IN  /\ \A k \in 1..left_count : bvh.triangles[node.index + k] = lefts[k]
            /\ \A p \in right_range : ~IsLeft(bvh.triangles[p + 1])
            /\ TrianglesAt(bvh.triangles, right_range)
                 = TrianglesAt(before, NodeRange(node) \ LeftPositions(before, node, split))
            /\ (left_count = 0 \/ left_count = node.count) =>
                  (bvh.last.result = <<>> /\ StaysLeaf)
            /\ (left_count # 0 /\ left_count # node.count) =>
                  /\ bvh.last.result # <<>>
                  /\ bvh.last.result[1].index = node.index
                  /\ bvh.last.result[1].count = left_count
                  /\ bvh.last.result[2].index = node.index + left_count
                  /\ bvh.last.result[2].count = node.count - left_count

\* an accepted split that moved triangles, with a centre exactly at mid
C24_Witness ==
    /\ SplitCalled
    /\ bvh.last.result # <<>>
    /\ bvh.triangles # bvh.last.before
    /\ \E p \in NodeRange(bvh.last.node) :
          16 * bvh.last.before[p + 1].center3[bvh.last.candidates[Chosen].axis]
              = bvh.last.candidates[Chosen].mid48

RECURSIVE Height(_)
\* the number of levels below node n
Height(n) ==
    LET node == bvh.nodes[n + 1] IN
    IF BVHNode_is_leaf(node) THEN 0
    ELSE 1 + Max(Height(node.index), Height(node.index + 1))

\* C25: a node popped at depth >= 32 is left as the leaf it was, the build goes
\* on to its end without an error, and no node lies more than 32 levels below
\* the root
C25_DepthCapped ==
    /\ bvh.pc \in {"idle", "loop", "done"}
    /\ bvh.last.kind = "capped" =>
          /\ bvh.last.depth >= MAX_DEPTH
          /\ StaysLeaf
          /\ bvh.triangles = bvh.last.before
    /\ Called => bvh.last.depth < MAX_DEPTH
    /\ bvh.nodes # <<>> => Height(0) <= MAX_DEPTH

\* a finished tree of 32 levels whose last node popped holds twelve triangles
\* and was left unsplit by the cap
C25_Witness ==
    /\ bvh.pc = "done"
    /\ Height(0) = MAX_DEPTH
    /\ bvh.last.kind = "capped"
    /\ bvh.last.depth = MAX_DEPTH
    /\ bvh.last.node.count = 12

RECURSIVE SumCounts(_)
\* the number of primitives in the leaves among the nodes S
SumCounts(S) ==
    IF S = {} THEN 0
    ELSE LET n == CHOOSE n \in S : TRUE IN bvh.nodes[n + 1].count + SumCounts(S \ {n})

\* C26: for 11 colinear triangles with centres at x = 0 .. 10 the root is split
\* by brute force, the tree has an inner node and 11 leaves holding 11
\* primitives; for 12 such triangles the root is split by binning and the tree
\* bounds its primitives, partitions the range and has well-formed leaves
C26_Crossover ==
    /\ (bvh.mesh = ColinearMesh(11) /\ Called /\ bvh.last.node_index = 0) =>
          (bvh.last.branch = "brute" /\ bvh.last.result # <<>>)
    /\ (bvh.mesh = ColinearMesh(11) /\ bvh.pc = "done") =>
          /\ InnerIds # {}
          /\ Cardinality(LeafIds) = 11
          /\ SumCounts(LeafIds) = 11
    /\ (bvh.mesh = ColinearMesh(12) /\ Called /\ bvh.last.node_index = 0) =>
          bvh.last.branch = "binned"
    /\ (bvh.mesh = ColinearMesh(12) /\ bvh.pc = "done") =>
          /\ C13_NodeBoundsContainPrimitives
          /\ C14_SubtreesPartitionRange
          /\ C15_LeafCountPositive
          /\ SumCounts(LeafIds) = 12

\* the tree over the twelve colinear triangles, with inner nodes
C26_Witness ==
    /\ bvh.mesh = ColinearMesh(12)
    /\ bvh.pc = "done"
    /\ Cardinality(InnerIds) >= 2

\* `while let Some(..) = stack.pop()`: an iteration can be taken
PopEnabled == bvh.pc = "loop" /\ bvh.stack # <<>>

\* SpecBVHFair: the loop of build_bvh keeps running while the stack is not
\* empty (weak fairness of BVH_Pop, whose steps all change the stack, with
\* its enabling condition written out), and the function returns once it is
SpecBVHFair ==
    /\ SpecBVH
    /\ ([]<>(~PopEnabled) \/ []<><<BVH_Pop>>_vars)
    /\ WF_vars(BVH_Finish)

\* C27: every accepted split gives two non-empty children with fewer
\* primitives than the parent, which replace the parent on the stack; a
\* rejected split or a capped node pushes nothing; every build that has
\* started returns
C27_BuildTerminates ==
    /\ [](Called /\ bvh.last.result # <<>> =>
            /\ bvh.last.result[1].count > 0
            /\ bvh.last.result[2].count > 0
            /\ bvh.last.result[1].count < bvh.last.node.count
            /\ bvh.last.result[2].count < bvh.last.node.count
            /\ bvh.last.result[1].count + bvh.last.result[2].count = bvh.last.node.count)
    /\ [][(bvh.pc = "loop" /\ bvh'.pc = "loop") =>
            IF bvh'.last.result # <<>>
            THEN Len(bvh'.stack) = Len(bvh.stack) + 1 /\ Len(bvh'.nodes) = Len(bvh.nodes) + 2
            ELSE Len(bvh'.stack) = Len(bvh.stack) - 1 /\ bvh'.nodes = bvh.nodes]_vars
    /\ (bvh.pc = "loop") ~> (bvh.pc = "done")

\* a build that returned after accepted and rejected splits
C27_Witness ==
    /\ bvh.pc = "done"
    /\ bvh.stack = <<>>
    /\ Len(bvh.nodes) >= 5
    /\ \E n \in LeafIds : bvh.nodes[n + 1].count >= 2

\* C28 as stated: whenever split_node accepts a split, the children hold
\* exactly the primitives of the left and right bins whose summed cost was
\* selected (for the binned search the primitives binned into 0 ..= i and into
\* i + 1 .. N_BINS - 1), and the children's summed cost is strictly less than
\* the parent's cost
C28_ChildrenAreSelectedBins ==
    (SplitCalled /\ bvh.last.result # <<>>) =>
        LET node == bvh.last.node
            before == bvh.last.before
            chosen == bvh.last.candidates[Chosen]
            left_bin == IF bvh.last.branch = "brute"
                        THEN LeftPositions(before, node, SplitOf(chosen))
                        ELSE { p \in NodeRange(node) :
                                 BinIndex(before[p + 1], node, chosen.axis) <= chosen.i }
            left == bvh.last.result[1]
            right == bvh.last.result[2]
        IN  /\ TrianglesAt(bvh.triangles, NodeRange(left)) = TrianglesAt(before, left_bin)
            /\ TrianglesAt(bvh.triangles, NodeRange(right))
                 = TrianglesAt(before, NodeRange(node) \ left_bin)
            /\ CostLess(CostAdd(BVHNode_cost(left), BVHNode_cost(right)), BVHNode_cost(node))

-----------------------------------------------------------------------------
(* SpecScene: a glTF document is parsed into a Scene and from_scene builds *)
(* the shared BLAS over it, one iteration of its loop at a time            *)

MaxMeshes == 2
MaxNodes == 3

\* the primitives of the documents, given by their triangles
GltfPrimitives ==
    { << << <<0, 0, 0>>, <<1, 0, 0>>, <<0, 1, 0>> >> >>,
      << << <<0, 0, 0>>, <<1, 0, 0>>, <<0, 1, 0>> >>,
         << <<4, 0, 0>>, <<5, 0, 1>>, <<4, 1, 1>> >> >> }

\* meshes of one or two primitives
GltfMeshes ==
    { <<p>> : p \in GltfPrimitives }
        \cup { <<p, q>> : p \in { s \in GltfPrimitives : Len(s) = 1 },
                          q \in { s \in GltfPrimitives : Len(s) = 2 } }

\* documents: the meshes, and per node the mesh it names (1-based) or 0
GltfDocuments ==
    UNION { { [meshes |-> meshes, nodes |-> nodes] :
                nodes \in UNION { [1..n -> 0..Len(meshes)] : n \in 0..MaxNodes } } :
            meshes \in UNION { [1..n -> GltfMeshes] : n \in 1..MaxMeshes } }

RECURSIVE GeometryKeys(_, _)
\* (mesh.index(), primitive.index()) in the order of the loops over
\* gltf.meshes() and mesh.primitives(), from mesh m on
GeometryKeys(gltf, m) ==
    IF m > Len(gltf.meshes) THEN <<>>
    ELSE [p \in 1..Len(gltf.meshes[m]) |-> <<m - 1, p - 1>>] \o GeometryKeys(gltf, m + 1)

RECURSIVE ReadGeometries(_, _, _, _)
\* the body of the loop over mesh.primitives(), for the keys from k on: the
\* positions are pushed onto vertices, the indices shifted by start_vertex
\* onto indices, and geometry_map gets the index range under the key
ReadGeometries(gltf, keys, k, scene) ==
    IF k > Len(keys) THEN scene
    ELSE LET primitive == gltf.meshes[keys[k][1] + 1][keys[k][2] + 1]
             start_vertex == Len(scene.vertices)
             start_index == Len(scene.indices)
             indices == scene.indices
                          \o [i \in 1..(3 * Len(primitive)) |-> (i - 1) + start_vertex]
         IN  ReadGeometries(gltf, keys, k + 1,
                 [scene EXCEPT
                    !.vertices = scene.vertices \o Corners(primitive),
                    !.indices = indices,
                    !.geometry_map = scene.geometry_map
                        @@ (keys[k] :> [start |-> start_index, end |-> Len(indices)])])

RECURSIVE ReadNodes(_, _, _)
\* the loop over gltf.nodes(), from node n on: a node with a mesh pushes one
\* Primitive per primitive of the mesh, with the index range found in
\* geometry_map; the transform and the material are the node's
ReadNodes(gltf, n, scene) ==
    IF n > Len(gltf.nodes) THEN scene
    ELSE IF gltf.nodes[n] = 0 THEN ReadNodes(gltf, n + 1, scene)
    ELSE LET mesh == gltf.nodes[n]
             pushed == [p \in 1..Len(gltf.meshes[mesh]) |->
                          [index_range |-> scene.geometry_map[<<mesh - 1, p - 1>>],
                           node |-> n]]
         IN  ReadNodes(gltf, n + 1, [scene EXCEPT !.primitives = scene.primitives \o pushed])

\* Scene::parse_gltf on a default Scene
Scene_parse_gltf(scene, gltf) ==
    ReadNodes(gltf, 1,
        ReadGeometries(gltf, GeometryKeys(gltf, 1), 1, [scene EXCEPT !.gltf = gltf]))

\* BVHTree::append(primitives, range) -> root_index, up to its loop: the leaf
\* over the range is appended to the node list of the tree as the new root
\* and pushed on the work stack
BVHTree_append(nodes, triangles, range) ==
    [nodes |-> Append(nodes, BVHTree_build_leaf(triangles, range.start,
                                                range.end - range.start)),
     stack |-> << [depth |-> 0, node_index |-> Len(nodes)] >>,
     root  |-> Len(nodes)]

\* one iteration of the loop of append over its work stack: pop, skip at
\* MAX_DEPTH, else split_node; the children of a split are appended to the
\* node list and pushed
BVHTree_append_iteration(triangles, nodes, stack) ==
    LET top == stack[Len(stack)]
        rest == SubSeq(stack, 1, Len(stack) - 1)
        node == nodes[top.node_index + 1]
        left_index == Len(nodes)
        Continue(r) ==
            IF r.result = <<>> THEN [triangles |-> r.triangles, nodes |-> nodes, stack |-> rest]
            ELSE [triangles |-> r.triangles,
                  nodes |-> [nodes EXCEPT ![top.node_index + 1] =
                                BVHNode_make_inner(node, left_index)] \o r.result,
                  stack |-> rest \o << [depth |-> top.depth + 1, node_index |-> left_index],
                                       [depth |-> top.depth + 1,
                                        node_index |-> left_index + 1] >>]
    IN  IF DepthCapped(top.depth)
        THEN [triangles |-> triangles, nodes |-> nodes, stack |-> rest]
        ELSE CHOOSE c \in { Continue(r) : r \in { BVHTree_split_node(triangles, node) } } : TRUE

SceneOnly == UNCHANGED <<pt, wgpu, cam, gpu_camera, app, window, loop, frame, orbited, inputs,
                         api, cam_api, metrics, perf_api, bvh>>

\* scene.parse_gltf(path) on the Scene made by Scene::default()
Scene_Parse(gltf) ==
    /\ ingest.pc = "empty"
    /\ ingest' = [Scene_parse_gltf(ingest, gltf) EXCEPT !.pc = "parsed"]
    /\ SceneOnly

\* from_scene up to its loop: the triangle cache, an empty BLAS, no instances
FromScene_Begin ==
    /\ ingest.pc = "parsed"
    /\ ingest' = [ingest EXCEPT
                    !.pc = "appending",
                    !.triangles = TriangleCache([vertices |-> ingest.vertices,
                                                 indices |-> ingest.indices]),
                    !.blas = <<>>,
                    !.instances = <<>>]
    /\ SceneOnly

\* an iteration of `for primitive in &scene.primitives` up to the loop inside
\* blas.append: the root over the primitive's triangle range is appended
FromScene_Append ==
    /\ ingest.pc = "appending"
    /\ Len(ingest.instances) < Len(ingest.primitives)
    /\ LET primitive == ingest.primitives[Len(ingest.instances) + 1]
           triangle_range == [start |-> primitive.index_range.start \div 3,
                              end |-> primitive.index_range.end \div 3]
       IN  \E r \in { BVHTree_append(ingest.blas, ingest.triangles, triangle_range) } :
              ingest' = [ingest EXCEPT !.pc = "append", !.blas = r.nodes, !.stack = r.stack,
                                       !.root = r.root]
    /\ SceneOnly

\* one iteration of the loop inside blas.append
FromScene_AppendIteration ==
    /\ ingest.pc = "append"
    /\ ingest.stack # <<>>
    /\ \E r \in { BVHTree_append_iteration(ingest.triangles, ingest.blas, ingest.stack) } :
          ingest' = [ingest EXCEPT !.triangles = r.triangles, !.blas = r.nodes,
                                   !.stack = r.stack]
    /\ SceneOnly

\* blas.append returns the root and the iteration of from_scene ends: an
\* instance with the root as its node is pushed
FromScene_Push ==
    /\ ingest.pc = "append"
    /\ ingest.stack = <<>>
    /\ ingest' = [ingest EXCEPT
                    !.pc = "appending",
                    !.instances = Append(ingest.instances,
                                         [node |-> ingest.root,
                                          primitive |-> ingest.primitives[
                                                          Len(ingest.instances) + 1]])]
    /\ SceneOnly

\* from_scene after its loop: the permutation of the triangles is applied to
\* scene.indices (the TLAS over the instances and the buffers read the BLAS
\* and the triangles without changing them)
FromScene_Finish ==
    /\ ingest.pc = "appending"
    /\ Len(ingest.instances) = Len(ingest.primitives)
    /\ ingest' = [ingest EXCEPT !.pc = "done", !.indices = FlatIndices(ingest.triangles)]
    /\ SceneOnly

NextScene ==
    \/ \E gltf \in GltfDocuments : Scene_Parse(gltf)
    \/ FromScene_Begin
    \/ FromScene_Append
    \/ FromScene_AppendIteration
    \/ FromScene_Push
    \/ FromScene_Finish

SpecScene == Init /\ [][NextScene]_vars

RECURSIVE SumOver(_, _)
\* the sum of f over the set S
SumOver(f, S) ==
    IF S = {} THEN 0
    ELSE LET x == CHOOSE x \in S : TRUE IN f[x] + SumOver(f, S \ {x})

\* the number of triangles referenced by the leaves of the global BLAS
BlasLeafTriangles ==
    SumOver([n \in 1..Len(ingest.blas) |-> ingest.blas[n].count], 1..Len(ingest.blas))

\* the sum over the geometries of (index_range.end - index_range.start) / 3
GeometryTriangles ==
    SumOver([key \in DOMAIN ingest.geometry_map |->
                (ingest.geometry_map[key].end - ingest.geometry_map[key].start) \div 3],
            DOMAIN ingest.geometry_map)

\* C21 as stated: from_scene appends one BVH per unique geometry, so the
\* leaves of the global BLAS reference as many triangles as the geometries
\* hold, also when several nodes reference the same geometry
C21_OneBvhPerGeometry ==
    ingest.pc = "done" =>
        /\ Len(ingest.instances) = Cardinality(DOMAIN ingest.geometry_map)
        /\ Cardinality({ ingest.instances[k].node : k \in 1..Len(ingest.instances) })
             = Cardinality(DOMAIN ingest.geometry_map)
        /\ BlasLeafTriangles = GeometryTriangles

=============================================================================
